---- MODULE Spec2Model ----
(***************************************************************************)
(* gallery-inspector: the directory analysis (analysis.py), the images     *)
(* table and the reorganization engine (generate.py), the filtering engine *)
(* (filtering.py), the CR2 converter (convertor.py) and the desktop app    *)
(* (ui/app.py) as state machines, and their helper functions as calls on   *)
(* bounded inputs.                                                         *)
(***************************************************************************)
EXTENDS Integers, Sequences, FiniteSets, TLC

VARIABLES
    job,               \* which entry point this run executes
    stop_event,        \* Cancel signal (threading.Event), set by the controller
    pause_event,       \* Pause signal (threading.Event), set/cleared by the controller
    pc,                \* position of the coordinating thread
    outcome,           \* "running" | "returned" | "raised"
    reported,          \* values handed to progress_callback, in order
    \* ---- analyze_directories ----
    paths,             \* the roots argument
    fileKind,          \* file id -> [ext, ok]: extension and whether its decoder succeeds
    pathIdx, dirIdx,   \* position of the os.walk loops
    files_to_process,
    total_files,
    taskState,         \* futures: "pending" | "running" | "done" | "cancelled"
    yielded,           \* futures already yielded by as_completed
    cur,               \* the future the collection loop holds (0: none)
    idx,               \* enumerate index i of the collection loop
    all_images, all_videos, all_others,
    exitKind,          \* how the with-block is being left
    result,            \* the returned triple of tables (<<>> before return)
    cancelSeen,        \* a Cancel check of the run found the signal set
    everPaused,        \* the run has been blocked in a pause wait
    \* ---- generated_directory / generated_directory_from_list ----
    input_list,        \* input_paths (roots) or files (entries)
    options,           \* Options: by_media_type, structure, on_exist
    all_files,
    successful_copies,
    excluded_files,
    outDirs,           \* directories of the output tree
    outFiles,          \* files of the output tree: path -> content
    processed,         \* one entry per _process_single_file call, in order
    copiedAfterCancel, \* copies made while the Cancel signal was already set
    \* ---- filter_files ----
    query,             \* FilterOptions
    filtered_files,
    handed,            \* <<>> until line 217; then the list handed to reorganization
                       \* and the number of files the loop had evaluated
    \* ---- calls of the helper functions ----
    arg,               \* the argument of the call
    ret,               \* <<>> until the call ends; then what it returned or raised
    \* ---- the desktop app (ui/app.py) ----
    tab,               \* the tab the tabview shows
    threads,           \* per function: the state of its worker thread
    buttons,           \* state of the run buttons and of each tab's pause/stop buttons
    signalled          \* the running functions for which Stop was pressed

avars == <<paths, fileKind, pathIdx, dirIdx, files_to_process, total_files,
           taskState, yielded, cur, idx, all_images, all_videos, all_others,
           exitKind, result, cancelSeen, everPaused>>
fvars == <<query, filtered_files, handed>>
uvars == <<tab, threads, buttons, signalled>>
xvars == <<arg, ret, uvars>>
ovars == <<input_list, options, all_files, successful_copies, excluded_files,
           outDirs, outFiles, processed, copiedAfterCancel, fvars, xvars>>
cvars == <<stop_event, pause_event>>
vars == <<job, pc, outcome, reported, cvars, avars, ovars>>

----------------------------------------------------------------------------
(* Bounds *)
MaxRoots == 2
MaxWorkers == 2
MaxList == 2

----------------------------------------------------------------------------
(* The scanned tree: D2 is a subdirectory of D1, D3 is an empty directory. *)
Roots == {"D1", "D2", "D3"}
FileIds == {1, 2}

\* os.walk(root, topdown=False): subdirectories before their parent
Walk(root) ==
    CASE root = "D1" -> <<"D2", "D1">>
      [] root = "D2" -> <<"D2">>
      [] OTHER      -> <<"D3">>

\* the filenames os.walk lists for a directory
Filenames(dirpath) ==
    CASE dirpath = "D1" -> <<2>>
      [] dirpath = "D2" -> <<1>>
      [] OTHER          -> <<>>

BoundedSeq(S, n) == UNION {[1..k -> S] : k \in 0..n}

SeqToSet(s) == {s[k] : k \in 1..Len(s)}

----------------------------------------------------------------------------
(* analysis.py: extension sets and decoders *)
image_extensions == {".jpg", ".jpeg", ".png", ".webp", ".cr2", ".cr3"}
video_extensions == {".mp4", ".mov", ".avi", ".mkv", ".m4v", ".3gp", ".gif"}
standard_extensions == {".jpg", ".jpeg", ".png", ".webp"}
raw_extensions == {".cr2", ".cr3"}

ImageKeys == {"name", "filetype", "directory", "date_taken", "time_taken",
              "camera", "lens", "focal_length", "aperture", "iso",
              "shutter_speed", "size_bytes", "size_mb", "width", "height"}
VideoKeys == {"name", "filetype", "directory", "date_taken", "time_taken",
              "size_bytes", "size_mb", "width", "height", "duration_ms",
              "codec", "frame_rate"}
OtherKeys == {"name", "filetype", "directory", "size_bytes", "size_mb"}

\* A decoder call either returns <<record>> or <<>> (None), or raises.
Rec(f, keys) == [file |-> f, keys |-> keys]
Returns(v) == [raised |-> FALSE, value |-> v]
Raises == [raised |-> TRUE, value |-> <<>>]

\* try: ... return {...}  except Exception: return None
analyze_standard_image(f, kind) ==
    IF kind.ok THEN Returns(<<Rec(f, ImageKeys)>>) ELSE Returns(<<>>)

\* no try/except: a failure inside the RAW decoder leaves the function
analyze_raw(f, kind) ==
    IF kind.ok THEN Returns(<<Rec(f, ImageKeys)>>) ELSE Raises

analyze_image(f, kind) ==
    IF kind.ext \in standard_extensions THEN analyze_standard_image(f, kind)
    ELSE IF kind.ext \in raw_extensions THEN analyze_raw(f, kind)
    ELSE Returns(<<>>)

analyze_video(f, kind) ==
    IF kind.ok THEN Returns(<<Rec(f, VideoKeys)>>) ELSE Returns(<<>>)

analyze_other(f, kind) ==
    IF kind.ok THEN Returns(<<Rec(f, OtherKeys)>>) ELSE Returns(<<>>)

Category(ext) ==
    IF ext \in image_extensions THEN "image"
    ELSE IF ext \in video_extensions THEN "video"
    ELSE "other"

\* _analyze_any: (category, result), or the decoder's exception
analyze_any(f, kind) ==
    LET r == CASE Category(kind.ext) = "image" -> analyze_image(f, kind)
               [] Category(kind.ext) = "video" -> analyze_video(f, kind)
               [] OTHER                        -> analyze_other(f, kind)
    IN [raised |-> r.raised, category |-> Category(kind.ext), result |-> r.value]

----------------------------------------------------------------------------
(* Tables: a DataFrame is its column set and its rows (file ids). *)
DataFrame(records) ==
    [columns |-> UNION {records[k].keys : k \in 1..Len(records)},
     rows    |-> [k \in 1..Len(records) |-> records[k].file]]

EmptyColumns(type_name) ==
    CASE type_name = "image" ->
           {"name", "filetype", "directory", "date_taken", "time_taken",
            "camera", "lens", "focal_length", "aperture", "iso",
            "shutter_speed", "size_bytes", "size (MB)", "width", "height"}
      [] type_name = "video" ->
           {"name", "filetype", "directory", "date_taken", "time_taken",
            "size_bytes", "size (MB)", "width", "height", "duration_ms",
            "codec", "frame_rate"}
      [] OTHER ->
           {"name", "filetype", "directory", "size_bytes", "size (MB)"}

\* format_df without the removal of the size_mb column
format_df_keeps_size_mb(df, type_name) ==
    IF Len(df.rows) = 0 \/ df.columns = {}
    THEN [columns |-> EmptyColumns(type_name), rows |-> <<>>]
    ELSE [columns |-> IF "size_bytes" \in df.columns
                      THEN df.columns \cup {"size (MB)"} ELSE df.columns,
          rows |-> df.rows]

format_df(df, type_name) ==
    IF Len(df.rows) = 0 \/ df.columns = {}
    THEN [columns |-> EmptyColumns(type_name), rows |-> <<>>]
    ELSE LET c1 == IF "size_bytes" \in df.columns
                   THEN df.columns \cup {"size (MB)"} ELSE df.columns
         IN [columns |-> c1 \ {"size_mb"}, rows |-> df.rows]

\* return format_df(pd.DataFrame(), "image"), format_df(pd.DataFrame(), "video"), ...
EmptyTables ==
    <<format_df(DataFrame(<<>>), "image"),
      format_df(DataFrame(<<>>), "video"),
      format_df(DataFrame(<<>>), "other")>>

\* the tables built from the collected records (lines 419-423)
BuildTables(images, videos, others) ==
    <<format_df(DataFrame(images), "image"),
      format_df(DataFrame(videos), "video"),
      format_df(DataFrame(others), "other")>>

\* a Cancel branch that returns what was collected so far
CancelTablesPartial(images, videos, others) == BuildTables(images, videos, others)

\* what the Cancel branches return: three empty frames, whatever was collected
CancelTables(images, videos, others) == EmptyTables

----------------------------------------------------------------------------
\* what each file of the tree may be: file 1 an image (standard or RAW),
\* file 2 a video, another file or a RAW image; ok tells whether the
\* decoder of the file succeeds on it
KindChoices ==
    {k \in [FileIds -> [ext : {".jpg", ".cr2", ".mp4", ".txt"}, ok : BOOLEAN]] :
        /\ k[1].ext \in {".jpg", ".cr2"}
        /\ k[2] \in {[ext |-> ".mp4", ok |-> TRUE], [ext |-> ".mp4", ok |-> FALSE],
                     [ext |-> ".txt", ok |-> TRUE], [ext |-> ".cr2", ok |-> FALSE]}}

\* the variables of filter_files in a run of another entry point
NoQuery ==
    [filetypes |-> {}, extensions |-> {}, date_range |-> <<>>,
     cameras |-> {}, lenses |-> {}, aperture_range |-> <<>>,
     iso_range |-> <<>>, shutter_speed_range |-> <<>>]

InitNoFilter ==
    /\ query = NoQuery
    /\ filtered_files = <<>>
    /\ handed = <<>>

\* no helper function is being called
\* the desktop app is not part of the run
InitNoUi ==
    /\ tab = ""
    /\ threads = <<>>
    /\ buttons = <<>>
    /\ signalled = {}

InitNoCall ==
    /\ arg = <<>>
    /\ ret = <<>>
    /\ InitNoUi

InitControl ==
    /\ stop_event = FALSE
    /\ pause_event = FALSE

InitAnalyze ==
    /\ job = "analyze"
    /\ InitControl
    /\ InitNoCall
    /\ paths \in BoundedSeq(Roots, MaxRoots)
    /\ fileKind \in KindChoices
    /\ pc = "walk"
    /\ outcome = "running"
    /\ reported = <<>>
    /\ pathIdx = 1
    /\ dirIdx = 1
    /\ files_to_process = <<>>
    /\ total_files = 0
    /\ taskState = <<>>
    /\ yielded = {}
    /\ cur = 0
    /\ idx = 0
    /\ all_images = <<>>
    /\ all_videos = <<>>
    /\ all_others = <<>>
    /\ exitKind = "none"
    /\ result = <<>>
    /\ cancelSeen = FALSE
    /\ everPaused = FALSE
    /\ input_list = <<>>
    /\ options = [by_media_type |-> TRUE, structure |-> <<>>, on_exist |-> "rename"]
    /\ all_files = <<>>
    /\ successful_copies = 0
    /\ excluded_files = <<>>
    /\ outDirs = {}
    /\ outFiles = <<>>
    /\ processed = <<>>
    /\ copiedAfterCancel = 0
    /\ InitNoFilter

----------------------------------------------------------------------------
(* analyze_directories *)
Running == outcome = "running"

\* the two functions that decode on a ThreadPoolExecutor
PoolJob == job \in {"analyze", "images_table"}

WalkActive == pathIdx <= Len(paths)
CurDir == Walk(paths[pathIdx])[dirIdx]

ReturnCancelled ==
    /\ result' = CancelTables(all_images, all_videos, all_others)
    /\ outcome' = "returned"
    /\ cancelSeen' = TRUE
    /\ pc' = "done"

\* line 364: the Cancel check of the walk loop
WalkCheckStop ==
    /\ job = "analyze" /\ pc = "walk" /\ WalkActive
    /\ IF stop_event
       THEN /\ ReturnCancelled
            /\ UNCHANGED everPaused
       ELSE /\ pc' = "walk_pause"
            /\ UNCHANGED <<result, outcome, cancelSeen, everPaused>>
    /\ UNCHANGED <<ovars, job, reported, cvars, paths, fileKind, pathIdx, dirIdx,
                   files_to_process, total_files, taskState, yielded, cur, idx,
                   all_images, all_videos, all_others, exitKind>>

\* lines 368-372: one turn of the pause wait of the walk loop
WalkPauseWait ==
    /\ job = "analyze" /\ pc = "walk_pause" /\ pause_event
    /\ IF stop_event
       THEN /\ ReturnCancelled
            /\ UNCHANGED everPaused
       ELSE /\ everPaused' = TRUE
            /\ UNCHANGED <<result, outcome, cancelSeen, pc>>
    /\ UNCHANGED <<ovars, job, reported, cvars, paths, fileKind, pathIdx, dirIdx,
                   files_to_process, total_files, taskState, yielded, cur, idx,
                   all_images, all_videos, all_others, exitKind>>

\* lines 374-377: the files of the directory are appended
WalkDir ==
    /\ job = "analyze" /\ pc = "walk_pause" /\ ~pause_event
    /\ files_to_process' = files_to_process \o Filenames(CurDir)
    /\ IF dirIdx < Len(Walk(paths[pathIdx]))
       THEN dirIdx' = dirIdx + 1 /\ pathIdx' = pathIdx
       ELSE dirIdx' = 1 /\ pathIdx' = pathIdx + 1
    /\ pc' = "walk"
    /\ UNCHANGED <<ovars, job, outcome, reported, cvars, paths, fileKind, total_files,
                   taskState, yielded, cur, idx, all_images, all_videos,
                   all_others, exitKind, result, cancelSeen, everPaused>>

\* lines 379-395: count the files, return if none, submit one task per file
Submit ==
    /\ job = "analyze" /\ pc = "walk" /\ ~WalkActive
    /\ total_files' = Len(files_to_process)
    /\ IF Len(files_to_process) = 0
       THEN /\ result' = EmptyTables
            /\ outcome' = "returned"
            /\ pc' = "done"
            /\ UNCHANGED taskState
       ELSE /\ taskState' = [k \in 1..Len(files_to_process) |-> "pending"]
            /\ pc' = "collect"
            /\ UNCHANGED <<result, outcome>>
    /\ UNCHANGED <<ovars, job, reported, cvars, paths, fileKind, pathIdx, dirIdx,
                   files_to_process, yielded, cur, idx, all_images, all_videos,
                   all_others, exitKind, cancelSeen, everPaused>>

\* ThreadPoolExecutor: a free worker takes the oldest queued task
WorkerStart ==
    /\ PoolJob
    /\ Cardinality({k \in DOMAIN taskState : taskState[k] = "running"}) < MaxWorkers
    /\ \E k \in DOMAIN taskState :
         /\ taskState[k] = "pending"
         /\ \A j \in 1..(k-1) : taskState[j] # "pending"
         /\ taskState' = [taskState EXCEPT ![k] = "running"]
    /\ UNCHANGED <<ovars, job, pc, outcome, reported, cvars, paths, fileKind, pathIdx,
                   dirIdx, files_to_process, total_files, yielded, cur, idx,
                   all_images, all_videos, all_others, exitKind, result,
                   cancelSeen, everPaused>>

\* a worker finishes _analyze_any for its task
WorkerFinish ==
    /\ PoolJob
    /\ \E k \in DOMAIN taskState :
         /\ taskState[k] = "running"
         /\ taskState' = [taskState EXCEPT ![k] = "done"]
    /\ UNCHANGED <<ovars, job, pc, outcome, reported, cvars, paths, fileKind, pathIdx,
                   dirIdx, files_to_process, total_files, yielded, cur, idx,
                   all_images, all_videos, all_others, exitKind, result,
                   cancelSeen, everPaused>>

\* line 396: as_completed yields some finished future not yet yielded
AsCompleted ==
    /\ PoolJob /\ pc = "collect" /\ idx < total_files
    /\ \E k \in DOMAIN taskState :
         /\ taskState[k] = "done" /\ k \notin yielded
         /\ cur' = k
         /\ yielded' = yielded \cup {k}
    /\ pc' = "coll_stop"
    /\ UNCHANGED <<ovars, job, outcome, reported, cvars, paths, fileKind, pathIdx,
                   dirIdx, files_to_process, total_files, taskState, idx,
                   all_images, all_videos, all_others, exitKind, result,
                   cancelSeen, everPaused>>

\* executor.shutdown(wait=False, cancel_futures=True); return ... inside the with
ShutdownAndReturn ==
    /\ taskState' = [k \in DOMAIN taskState |->
                        IF taskState[k] = "pending" THEN "cancelled" ELSE taskState[k]]
    /\ exitKind' = "cancel"
    /\ cancelSeen' = TRUE
    /\ pc' = "exit_wait"

\* line 397: the Cancel check of the collection loop
CollCheckStop ==
    /\ job = "analyze" /\ pc = "coll_stop"
    /\ IF stop_event
       THEN ShutdownAndReturn
       ELSE /\ pc' = "coll_pause"
            /\ UNCHANGED <<taskState, exitKind, cancelSeen>>
    /\ UNCHANGED <<ovars, job, outcome, reported, cvars, paths, fileKind, pathIdx,
                   dirIdx, files_to_process, total_files, yielded, cur, idx,
                   all_images, all_videos, all_others, result, everPaused>>

\* a pause wait that drops the future it holds and moves to the next one
CollPauseWaitDropsFuture ==
    /\ job = "analyze" /\ pc = "coll_pause" /\ pause_event
    /\ IF stop_event
       THEN /\ taskState' = [k \in DOMAIN taskState |->
                        IF taskState[k] = "pending" THEN "cancelled" ELSE taskState[k]]
            /\ exitKind' = "cancel"
            /\ cancelSeen' = TRUE
            /\ pc' = "exit_wait"
            /\ UNCHANGED <<everPaused, idx>>
       ELSE /\ everPaused' = TRUE
            /\ idx' = idx + 1
            /\ pc' = "collect"
            /\ UNCHANGED <<taskState, exitKind, cancelSeen>>
    /\ UNCHANGED <<ovars, job, outcome, reported, cvars, paths, fileKind, pathIdx,
                   dirIdx, files_to_process, total_files, yielded, cur,
                   all_images, all_videos, all_others, result>>

\* lines 401-406: one turn of the pause wait of the collection loop
CollPauseWait ==
    /\ job = "analyze" /\ pc = "coll_pause" /\ pause_event
    /\ IF stop_event
       THEN /\ ShutdownAndReturn
            /\ UNCHANGED everPaused
       ELSE /\ everPaused' = TRUE
            /\ UNCHANGED <<taskState, exitKind, cancelSeen, pc>>
    /\ UNCHANGED idx
    /\ UNCHANGED <<ovars, job, outcome, reported, cvars, paths, fileKind, pathIdx,
                   dirIdx, files_to_process, total_files, yielded, cur,
                   all_images, all_videos, all_others, result>>

\* progress_callback((i + 1) / total_files): the fraction as numerator, denominator
Fraction(i, total) == <<i + 1, total>>

\* CollResult as it would be if the i-th yielded future were taken to be the
\* task of the i-th file
CollResultByPosition ==
    /\ job = "analyze" /\ pc = "coll_pause" /\ ~pause_event
    /\ LET f == files_to_process[idx + 1]
           r == analyze_any(f, fileKind[f])
       IN IF r.raised
          THEN /\ exitKind' = "raise"
               /\ pc' = "exit_wait"
               /\ UNCHANGED <<all_images, all_videos, all_others, reported, idx>>
          ELSE /\ all_images' = IF r.category = "image"
                                 THEN all_images \o r.result ELSE all_images
               /\ all_videos' = IF r.category = "video"
                                 THEN all_videos \o r.result ELSE all_videos
               /\ all_others' = IF r.category \notin {"image", "video"}
                                 THEN all_others \o r.result ELSE all_others
               /\ reported' = Append(reported, Fraction(idx, total_files))
               /\ idx' = idx + 1
               /\ pc' = "collect"
               /\ UNCHANGED exitKind
    /\ UNCHANGED <<ovars, job, outcome, cvars, paths, fileKind, pathIdx, dirIdx,
                   files_to_process, total_files, taskState, yielded, cur,
                   result, cancelSeen, everPaused>>

\* lines 408-417: future.result(), append by category, report progress
CollResult ==
    /\ job = "analyze" /\ pc = "coll_pause" /\ ~pause_event
    /\ LET f == files_to_process[cur]
           r == analyze_any(f, fileKind[f])
       IN IF r.raised
          THEN /\ exitKind' = "raise"
               /\ pc' = "exit_wait"
               /\ UNCHANGED <<all_images, all_videos, all_others, reported, idx>>
          ELSE /\ all_images' = IF r.category = "image"
                                 THEN all_images \o r.result ELSE all_images
               /\ all_videos' = IF r.category = "video"
                                 THEN all_videos \o r.result ELSE all_videos
               /\ all_others' = IF r.category \notin {"image", "video"}
                                 THEN all_others \o r.result ELSE all_others
               /\ reported' = Append(reported, Fraction(idx, total_files))
               /\ idx' = idx + 1
               /\ pc' = "collect"
               /\ UNCHANGED exitKind
    /\ UNCHANGED <<ovars, job, outcome, cvars, paths, fileKind, pathIdx, dirIdx,
                   files_to_process, total_files, taskState, yielded, cur,
                   result, cancelSeen, everPaused>>

\* the with-block is left: shutdown(wait=True) joins the workers
ExitWith ==
    /\ job = "analyze" /\ pc = "exit_wait"
    /\ \A k \in DOMAIN taskState : taskState[k] \in {"done", "cancelled"}
    /\ IF exitKind = "cancel"
       THEN /\ result' = CancelTables(all_images, all_videos, all_others)
            /\ outcome' = "returned"
       ELSE /\ outcome' = "raised"
            /\ UNCHANGED result
    /\ pc' = "done"
    /\ UNCHANGED <<ovars, job, reported, cvars, paths, fileKind, pathIdx, dirIdx,
                   files_to_process, total_files, taskState, yielded, cur, idx,
                   all_images, all_videos, all_others, exitKind, cancelSeen,
                   everPaused>>

\* lines 419-423: every future was consumed; build and return the tables
Finish ==
    /\ job = "analyze" /\ pc = "collect" /\ idx = total_files
    /\ result' = BuildTables(all_images, all_videos, all_others)
    /\ outcome' = "returned"
    /\ pc' = "done"
    /\ UNCHANGED <<ovars, job, reported, cvars, paths, fileKind, pathIdx, dirIdx,
                   files_to_process, total_files, taskState, yielded, cur, idx,
                   all_images, all_videos, all_others, exitKind, cancelSeen,
                   everPaused>>

----------------------------------------------------------------------------
(* The controller (the caller's thread): Stop, Pause, Resume *)
SetCancel ==
    /\ Running /\ ~stop_event
    /\ stop_event' = TRUE
    /\ UNCHANGED <<ovars, job, pc, outcome, reported, pause_event, avars>>

SetPause ==
    /\ Running /\ ~pause_event
    /\ pause_event' = TRUE
    /\ UNCHANGED <<ovars, job, pc, outcome, reported, stop_event, avars>>

ClearPause ==
    /\ Running /\ pause_event
    /\ pause_event' = FALSE
    /\ UNCHANGED <<ovars, job, pc, outcome, reported, stop_event, avars>>

NextAnalyze ==
    \/ WalkCheckStop
    \/ WalkPauseWait
    \/ WalkDir
    \/ Submit
    \/ WorkerStart
    \/ WorkerFinish
    \/ AsCompleted
    \/ CollCheckStop
    \/ CollPauseWait
    \/ CollResult
    \/ ExitWith
    \/ Finish
    \/ SetCancel
    \/ SetPause
    \/ ClearPause

SpecAnalyze == InitAnalyze /\ [][NextAnalyze]_vars

----------------------------------------------------------------------------
(* generate.py: generate_images_table and its decoders *)
generate_image_extensions == {".jpg", ".jpeg", ".cr2", ".cr3"}

GenerateImageKeys == {"name", "filetype", "directory", "date_taken", "camera",
                      "lens", "focal_length", "aperture", "iso", "shutter_speed",
                      "size_bytes", "size_mb", "width", "height"}

\* try: ... return {...}  except Exception: return None
analyze_jpeg(f, kind) ==
    IF kind.ok THEN Returns(<<Rec(f, GenerateImageKeys)>>) ELSE Returns(<<>>)

\* no try/except around the RAW decoding
generate_analyze_raw(f, kind) ==
    IF kind.ok THEN Returns(<<Rec(f, GenerateImageKeys)>>) ELSE Raises

generate_analyze_image(f, kind) ==
    IF kind.ext \in {".jpg", ".jpeg"} THEN analyze_jpeg(f, kind)
    ELSE IF kind.ext \in {".cr2", ".cr3"} THEN generate_analyze_raw(f, kind)
    ELSE Returns(<<>>)

\* pd.DataFrame(columns=[...]) of lines 368-385 and 415-432
GenerateEmptyColumns ==
    {"name", "filetype", "directory", "date_taken", "camera", "lens",
     "focal_length", "aperture", "iso", "shutter_speed", "size_bytes",
     "size (MB)", "width", "height"}

\* return pd.DataFrame(), pd.DataFrame(), pd.DataFrame()
BareFrames == <<DataFrame(<<>>), DataFrame(<<>>), DataFrame(<<>>)>>

\* return empty_df, pd.DataFrame(), pd.DataFrame()
NoFilesFrames ==
    <<[columns |-> GenerateEmptyColumns, rows |-> <<>>],
      DataFrame(<<>>), DataFrame(<<>>)>>

\* lines 412-451: the images table built from the collected records
GenerateFrames(records) ==
    LET df == DataFrame(records)
    IN <<IF Len(df.rows) = 0 \/ df.columns = {}
         THEN [columns |-> GenerateEmptyColumns, rows |-> <<>>]
         ELSE LET c1 == IF "size_bytes" \in df.columns
                        THEN df.columns \cup {"size (MB)"} ELSE df.columns
              IN [columns |-> c1 \ {"size_mb"}, rows |-> df.rows],
         DataFrame(<<>>), DataFrame(<<>>)>>

\* the files of a directory that the walk keeps (line 362)
ImageFilenames(dirpath) ==
    SelectSeq(Filenames(dirpath),
              LAMBDA f : fileKind[f].ext \in generate_image_extensions)

InitImagesTable ==
    /\ job = "images_table"
    /\ InitControl
    /\ InitNoCall
    /\ paths \in BoundedSeq(Roots, MaxRoots)
    /\ fileKind \in KindChoices
    /\ pc = "walk"
    /\ outcome = "running"
    /\ reported = <<>>
    /\ pathIdx = 1
    /\ dirIdx = 1
    /\ files_to_process = <<>>
    /\ total_files = 0
    /\ taskState = <<>>
    /\ yielded = {}
    /\ cur = 0
    /\ idx = 0
    /\ all_images = <<>>
    /\ all_videos = <<>>
    /\ all_others = <<>>
    /\ exitKind = "none"
    /\ result = <<>>
    /\ cancelSeen = FALSE
    /\ everPaused = FALSE
    /\ input_list = <<>>
    /\ options = [by_media_type |-> TRUE, structure |-> <<>>, on_exist |-> "rename"]
    /\ all_files = <<>>
    /\ successful_copies = 0
    /\ excluded_files = <<>>
    /\ outDirs = {}
    /\ outFiles = <<>>
    /\ processed = <<>>
    /\ copiedAfterCancel = 0
    /\ InitNoFilter

GenerateReturnCancelled ==
    /\ result' = BareFrames
    /\ outcome' = "returned"
    /\ cancelSeen' = TRUE
    /\ pc' = "done"

\* line 349: the Cancel check of the walk loop
GenerateWalkCheckStop ==
    /\ job = "images_table" /\ pc = "walk" /\ WalkActive
    /\ IF stop_event
       THEN /\ GenerateReturnCancelled
            /\ UNCHANGED everPaused
       ELSE /\ pc' = "walk_pause"
            /\ UNCHANGED <<result, outcome, cancelSeen, everPaused>>
    /\ UNCHANGED <<ovars, job, reported, cvars, paths, fileKind, pathIdx, dirIdx,
                   files_to_process, total_files, taskState, yielded, cur, idx,
                   all_images, all_videos, all_others, exitKind>>

\* lines 353-357: one turn of the pause wait of the walk loop
GenerateWalkPauseWait ==
    /\ job = "images_table" /\ pc = "walk_pause" /\ pause_event
    /\ IF stop_event
       THEN /\ GenerateReturnCancelled
            /\ UNCHANGED everPaused
       ELSE /\ everPaused' = TRUE
            /\ UNCHANGED <<result, outcome, cancelSeen, pc>>
    /\ UNCHANGED <<ovars, job, reported, cvars, paths, fileKind, pathIdx, dirIdx,
                   files_to_process, total_files, taskState, yielded, cur, idx,
                   all_images, all_videos, all_others, exitKind>>

\* lines 359-363: the image files of the directory are appended
GenerateWalkDir ==
    /\ job = "images_table" /\ pc = "walk_pause" /\ ~pause_event
    /\ files_to_process' = files_to_process \o ImageFilenames(CurDir)
    /\ IF dirIdx < Len(Walk(paths[pathIdx]))
       THEN dirIdx' = dirIdx + 1 /\ pathIdx' = pathIdx
       ELSE dirIdx' = 1 /\ pathIdx' = pathIdx + 1
    /\ pc' = "walk"
    /\ UNCHANGED <<ovars, job, outcome, reported, cvars, paths, fileKind, total_files,
                   taskState, yielded, cur, idx, all_images, all_videos,
                   all_others, exitKind, result, cancelSeen, everPaused>>

\* lines 365-393: count the files, return if none, submit one task per file
GenerateSubmit ==
    /\ job = "images_table" /\ pc = "walk" /\ ~WalkActive
    /\ total_files' = Len(files_to_process)
    /\ IF Len(files_to_process) = 0
       THEN /\ result' = NoFilesFrames
            /\ outcome' = "returned"
            /\ pc' = "done"
            /\ UNCHANGED taskState
       ELSE /\ taskState' = [k \in 1..Len(files_to_process) |-> "pending"]
            /\ pc' = "collect"
            /\ UNCHANGED <<result, outcome>>
    /\ UNCHANGED <<ovars, job, reported, cvars, paths, fileKind, pathIdx, dirIdx,
                   files_to_process, yielded, cur, idx, all_images, all_videos,
                   all_others, exitKind, cancelSeen, everPaused>>

\* line 395: the Cancel check of the collection loop
GenerateCollCheckStop ==
    /\ job = "images_table" /\ pc = "coll_stop"
    /\ IF stop_event
       THEN ShutdownAndReturn
       ELSE /\ pc' = "coll_pause"
            /\ UNCHANGED <<taskState, exitKind, cancelSeen>>
    /\ UNCHANGED <<ovars, job, outcome, reported, cvars, paths, fileKind, pathIdx,
                   dirIdx, files_to_process, total_files, yielded, cur, idx,
                   all_images, all_videos, all_others, result, everPaused>>

\* lines 399-404: one turn of the pause wait of the collection loop
GenerateCollPauseWait ==
    /\ job = "images_table" /\ pc = "coll_pause" /\ pause_event
    /\ IF stop_event
       THEN /\ ShutdownAndReturn
            /\ UNCHANGED everPaused
       ELSE /\ everPaused' = TRUE
            /\ UNCHANGED <<taskState, exitKind, cancelSeen, pc>>
    /\ UNCHANGED <<ovars, job, outcome, reported, cvars, paths, fileKind, pathIdx,
                   dirIdx, files_to_process, total_files, yielded, cur, idx,
                   all_images, all_videos, all_others, result>>

\* lines 406-410: future.result(), append the record, report progress
GenerateCollResult ==
    /\ job = "images_table" /\ pc = "coll_pause" /\ ~pause_event
    /\ LET f == files_to_process[cur]
           r == generate_analyze_image(f, fileKind[f])
       IN IF r.raised
          THEN /\ exitKind' = "raise"
               /\ pc' = "exit_wait"
               /\ UNCHANGED <<all_images, reported, idx>>
          ELSE /\ all_images' = all_images \o r.value
               /\ reported' = Append(reported, Fraction(idx, total_files))
               /\ idx' = idx + 1
               /\ pc' = "collect"
               /\ UNCHANGED exitKind
    /\ UNCHANGED <<ovars, job, outcome, cvars, paths, fileKind, pathIdx, dirIdx,
                   files_to_process, total_files, taskState, yielded, cur,
                   all_videos, all_others, result, cancelSeen, everPaused>>

\* the with-block is left: shutdown(wait=True) joins the workers
GenerateExitWith ==
    /\ job = "images_table" /\ pc = "exit_wait"
    /\ \A k \in DOMAIN taskState : taskState[k] \in {"done", "cancelled"}
    /\ IF exitKind = "cancel"
       THEN /\ result' = BareFrames
            /\ outcome' = "returned"
       ELSE /\ outcome' = "raised"
            /\ UNCHANGED result
    /\ pc' = "done"
    /\ UNCHANGED <<ovars, job, reported, cvars, paths, fileKind, pathIdx, dirIdx,
                   files_to_process, total_files, taskState, yielded, cur, idx,
                   all_images, all_videos, all_others, exitKind, cancelSeen,
                   everPaused>>

\* lines 412-451: every future was consumed; build and return the tables
GenerateFinish ==
    /\ job = "images_table" /\ pc = "collect" /\ idx = total_files
    /\ result' = GenerateFrames(all_images)
    /\ outcome' = "returned"
    /\ pc' = "done"
    /\ UNCHANGED <<ovars, job, reported, cvars, paths, fileKind, pathIdx, dirIdx,
                   files_to_process, total_files, taskState, yielded, cur, idx,
                   all_images, all_videos, all_others, exitKind, cancelSeen,
                   everPaused>>

NextImagesTable ==
    \/ GenerateWalkCheckStop
    \/ GenerateWalkPauseWait
    \/ GenerateWalkDir
    \/ GenerateSubmit
    \/ WorkerStart
    \/ WorkerFinish
    \/ AsCompleted
    \/ GenerateCollCheckStop
    \/ GenerateCollPauseWait
    \/ GenerateCollResult
    \/ GenerateExitWith
    \/ GenerateFinish
    \/ SetCancel
    \/ SetPause
    \/ ClearPause

SpecImagesTable == InitImagesTable /\ [][NextImagesTable]_vars

----------------------------------------------------------------------------
(* generate.py: the reorganization engine *)

\* The files offered to the engine.  1 and 2 share the name a.jpg and lie in
\* D1 and D1/D2; 3 is a further a.jpg; 4 is a video, 5 neither image nor
\* video; entry 0 is a directory.
OFileIds == 1..5
Entries == 0..5
OStem(f) == CASE f \in {1, 2, 3} -> "a" [] f = 4 -> "b" [] OTHER -> "c"
OSuffix(f) == CASE f \in {1, 2, 3} -> ".jpg" [] f = 4 -> ".mp4" [] OTHER -> ".txt"
OName(f) == OStem(f) \o OSuffix(f)
is_dir(e) == e = 0

\* input_path.rglob("*"): every entry below a root, directories included
RGlob(root) ==
    CASE root = "D1" -> <<1, 0, 2>>
      [] root = "D2" -> <<2>>
      [] OTHER      -> <<>>

Dims == {"Year", "Month", "Model", "Lens"}
NoMetadata == [none |-> TRUE, get |-> [d \in Dims |-> <<>>]]
Metadata(year, month, model, lens) ==
    [none |-> FALSE,
     get |-> [d \in Dims |-> CASE d = "Year" -> year [] d = "Month" -> month
                               [] d = "Model" -> model [] OTHER -> lens]]

\* _get_image_metadata: None when neither date, model nor lens was read;
\* otherwise Year/Month (both from the date), Model and Lens, each possibly None
get_image_metadata(f) ==
    CASE f = 1 -> Metadata(<<"2021">>, <<"05">>, <<"Canon">>, <<>>)
      [] f = 2 -> Metadata(<<>>, <<>>, <<"Canon">>, <<>>)
      [] OTHER -> NoMetadata

\* _get_video_metadata: Year and Month only, both None without a date
get_video_metadata(f) ==
    CASE f = 4 -> Metadata(<<"2021">>, <<"05">>, <<>>, <<>>)
      [] OTHER -> Metadata(<<>>, <<>>, <<>>, <<>>)

o_image_extensions == {".jpg", ".jpeg", ".png", ".cr2", ".nef", ".tiff", ".arw", ".cr3"}
o_video_extensions == {".mp4", ".mov", ".avi", ".mkv", ".m4v", ".3gp", ".gif"}

\* for arg in options.structure: target_dir / (val if val is not None else "No Info")
StructureLevels(metadata, structure) ==
    [k \in 1..Len(structure) |->
        IF metadata.get[structure[k]] = <<>> THEN "No Info"
        ELSE metadata.get[structure[k]][1]]

\* a media level that puts every file of a by_media_type run under Photos
\* or Videos
TargetDirTwoBuckets(f, opts) ==
    LET suffix == OSuffix(f)
        is_image == suffix \in o_image_extensions
        is_video == suffix \in o_video_extensions
        base == IF opts.by_media_type
                THEN <<IF is_video THEN "Videos" ELSE "Photos">>
                ELSE <<>>
    IN IF is_image
       THEN IF get_image_metadata(f).none
            THEN base \o <<"No Info">>
            ELSE base \o StructureLevels(get_image_metadata(f), opts.structure)
       ELSE IF is_video
       THEN IF get_video_metadata(f).none \/ opts.structure = <<>>
            THEN base \o <<"No Info">>
            ELSE base \o StructureLevels(get_video_metadata(f), opts.structure)
       ELSE base \o <<"No Info">>

\* lines 566-603: the directory, relative to output, the file is copied into
TargetDir(f, opts) ==
    LET suffix == OSuffix(f)
        is_image == suffix \in o_image_extensions
        is_video == suffix \in o_video_extensions
        base == IF opts.by_media_type /\ (is_image \/ is_video)
                THEN <<IF is_image THEN "Photos" ELSE "Videos">>
                ELSE <<>>
    IN IF is_image
       THEN IF get_image_metadata(f).none
            THEN base \o <<"No Info">>
            ELSE base \o StructureLevels(get_image_metadata(f), opts.structure)
       ELSE IF is_video
       THEN IF get_video_metadata(f).none \/ opts.structure = <<>>
            THEN base \o <<"No Info">>
            ELSE base \o StructureLevels(get_video_metadata(f), opts.structure)
       ELSE base \o <<"No Info">>

FilePath(dir, name) == [dir |-> dir, name |-> name]
Exists(files, p) == p \in DOMAIN files
Prefixes(dir) == {SubSeq(dir, 1, k) : k \in 0..Len(dir)}

\* while destination.exists(): destination = target_dir / f"{stem}_{counter}{suffix}"
RECURSIVE RenameLoop(_, _, _, _, _)
RenameLoop(files, dir, stem, suffix, counter) ==
    LET destination == FilePath(dir, stem \o "_" \o ToString(counter) \o suffix)
    IN IF Exists(files, destination)
       THEN RenameLoop(files, dir, stem, suffix, counter + 1)
       ELSE destination

\* a rename that always takes the suffix _1
Destination_1(files, f, dir, on_exist) ==
    IF on_exist = "rename" /\ Exists(files, FilePath(dir, OName(f)))
    THEN FilePath(dir, OStem(f) \o "_" \o ToString(1) \o OSuffix(f))
    ELSE FilePath(dir, OName(f))

\* lines 607-619: the path the file is copied to
Destination(files, f, dir, on_exist) ==
    IF on_exist = "rename" /\ Exists(files, FilePath(dir, OName(f)))
    THEN RenameLoop(files, dir, OStem(f), OSuffix(f), 1)
    ELSE FilePath(dir, OName(f))

\* a skip policy that never finds the destination
SkipsNever(files, f, dir, on_exist) == FALSE

\* line 609: options.on_exist == "skip" and destination.exists()
Skips(files, f, dir, on_exist) ==
    on_exist = "skip" /\ Exists(files, FilePath(dir, OName(f)))

\* shutil.copy2: the destination holds the content of the source afterwards
Copy(files, dest, f) ==
    [p \in DOMAIN files \cup {dest} |-> IF p = dest THEN f ELSE files[p]]

\* What the filesystem does to one call: mkdir can fail only for a directory
\* that is not there yet, the copy can fail for any file.
IoOutcomes(dir) ==
    IF dir \in outDirs THEN {"ok", "copy_fails"} ELSE {"ok", "mkdir_fails", "copy_fails"}

\* _process_single_file: [status, dirs, files] for one filesystem outcome
process_single_file(f, opts, io) ==
    LET target_dir == TargetDir(f, opts)
        dirs1 == outDirs \cup Prefixes(target_dir)
    IN IF io = "mkdir_fails"
       THEN [status |-> "error", dirs |-> outDirs, files |-> outFiles,
             dest |-> FilePath(target_dir, OName(f))]
       ELSE IF Skips(outFiles, f, target_dir, opts.on_exist)
       THEN [status |-> "skipped", dirs |-> dirs1, files |-> outFiles,
             dest |-> FilePath(target_dir, OName(f))]
       ELSE LET destination == Destination(outFiles, f, target_dir, opts.on_exist)
            IN IF io = "copy_fails"
               THEN [status |-> "error", dirs |-> dirs1, files |-> outFiles,
                     dest |-> destination]
               ELSE [status |-> "copied", dirs |-> dirs1,
                     files |-> Copy(outFiles, destination, f), dest |-> destination]

StructureChoices ==
    {<<>>, <<"Year", "Month">>, <<"Year", "Model">>}
OptionChoices ==
    [by_media_type : BOOLEAN, structure : StructureChoices,
     on_exist : {"rename", "skip"}]

\* Output trees left by an earlier run with the same options: nothing, or
\* a.jpg and a_2.jpg where file 1 goes.  Content 0 is older content.
EarlierFiles(opts) ==
    {{}, {FilePath(TargetDir(1, opts), "a.jpg"),
          FilePath(TargetDir(1, opts), "a_2.jpg")}}

RECURSIVE NonDirs(_)
NonDirs(entries) ==
    IF entries = <<>> THEN <<>>
    ELSE IF is_dir(Head(entries)) THEN NonDirs(Tail(entries))
    ELSE <<Head(entries)>> \o NonDirs(Tail(entries))

RECURSIVE RGlobAll(_)
RGlobAll(roots) ==
    IF roots = <<>> THEN <<>> ELSE RGlob(Head(roots)) \o RGlobAll(Tail(roots))

InitOrganizeCommon ==
    /\ InitControl
    /\ InitNoCall
    /\ options \in OptionChoices
    /\ \E earlier \in EarlierFiles(options) :
         /\ outFiles = [p \in earlier |-> 0]
         /\ outDirs = UNION {Prefixes(p.dir) : p \in earlier}
    /\ pc = "o_start"
    /\ outcome = "running"
    /\ reported = <<>>
    /\ all_files = <<>>
    /\ total_files = 0
    /\ idx = 0
    /\ successful_copies = 0
    /\ excluded_files = <<>>
    /\ processed = <<>>
    /\ copiedAfterCancel = 0
    /\ InitNoFilter
    /\ cancelSeen = FALSE
    /\ everPaused = FALSE
    /\ paths = <<>>
    /\ fileKind = <<>>
    /\ pathIdx = 1
    /\ dirIdx = 1
    /\ files_to_process = <<>>
    /\ taskState = <<>>
    /\ yielded = {}
    /\ cur = 0
    /\ all_images = <<>>
    /\ all_videos = <<>>
    /\ all_others = <<>>
    /\ exitKind = "none"
    /\ result = <<>>

InitOrganize ==
    /\ \/ job = "organize" /\ input_list \in BoundedSeq(Roots, MaxRoots)
       \/ job = "organize_list"
          /\ input_list \in BoundedSeq(Entries, MaxList)
    /\ InitOrganizeCommon

Organizing == job \in {"organize", "organize_list", "filter"}

ounchanged == <<job, cvars, paths, fileKind, pathIdx, dirIdx, files_to_process,
                taskState, yielded, cur, all_images, all_videos, all_others,
                exitKind, result, input_list, options, fvars, xvars>>

\* lines 637-646 / 693-696: enumerate the files, return if there are none
Enumerate ==
    /\ Organizing /\ pc = "o_start"
    /\ LET files == IF job = "organize" THEN NonDirs(RGlobAll(input_list))
                    ELSE NonDirs(input_list)
       IN /\ all_files' = files
          /\ total_files' = Len(files)
          /\ IF Len(files) = 0
             THEN pc' = "done" /\ outcome' = "returned"
             ELSE pc' = "o_loop" /\ UNCHANGED outcome
    /\ UNCHANGED <<ounchanged, reported, idx, successful_copies, excluded_files,
                   outDirs, outFiles, processed, copiedAfterCancel, cancelSeen,
                   everPaused>>

\* a loop head that starts the next file without the Cancel checks and the
\* pause wait of lines 652-665
LoopCheckStopStartsFile ==
    /\ Organizing /\ pc = "o_loop"
    /\ IF idx = total_files
       THEN pc' = "o_report"
       ELSE pc' = "o_process"
    /\ UNCHANGED <<ounchanged, outcome, reported, all_files, total_files, idx,
                   successful_copies, excluded_files, outDirs, outFiles,
                   processed, copiedAfterCancel, cancelSeen, everPaused>>

\* lines 652-655: the top of the loop and its Cancel check
LoopCheckStop ==
    /\ Organizing /\ pc = "o_loop"
    /\ IF idx = total_files
       THEN pc' = "o_report" /\ UNCHANGED cancelSeen
       ELSE IF stop_event
       THEN pc' = "o_report" /\ cancelSeen' = TRUE
       ELSE pc' = "o_pause" /\ UNCHANGED cancelSeen
    /\ UNCHANGED <<ounchanged, outcome, reported, all_files, total_files, idx,
                   successful_copies, excluded_files, outDirs, outFiles,
                   processed, copiedAfterCancel, everPaused>>

\* a pause wait that polls Pause only
LoopPauseWaitIgnoresCancel ==
    /\ Organizing /\ pc = "o_pause"
    /\ IF pause_event
       THEN UNCHANGED pc
       ELSE pc' = "o_stop2"
    /\ UNCHANGED <<ounchanged, outcome, reported, all_files, total_files, idx,
                   successful_copies, excluded_files, outDirs, outFiles,
                   processed, copiedAfterCancel, cancelSeen, everPaused>>

\* lines 657-661: the pause wait; it ends when Pause clears or Cancel is set
LoopPauseWait ==
    /\ Organizing /\ pc = "o_pause"
    /\ IF pause_event /\ ~stop_event
       THEN UNCHANGED pc
       ELSE pc' = "o_stop2"
    /\ UNCHANGED <<ounchanged, outcome, reported, all_files, total_files, idx,
                   successful_copies, excluded_files, outDirs, outFiles,
                   processed, copiedAfterCancel, cancelSeen, everPaused>>

\* lines 663-665: the Cancel check after the pause wait
LoopCheckStopAfterPause ==
    /\ Organizing /\ pc = "o_stop2"
    /\ IF stop_event
       THEN pc' = "o_report" /\ cancelSeen' = TRUE
       ELSE pc' = "o_process" /\ UNCHANGED cancelSeen
    /\ UNCHANGED <<ounchanged, outcome, reported, all_files, total_files, idx,
                   successful_copies, excluded_files, outDirs, outFiles,
                   processed, copiedAfterCancel, everPaused>>

\* ProcessFile as it would be if _process_single_file let the I/O error out:
\* the exception ends the loop and the run
ProcessFileStopsAtError ==
    /\ Organizing /\ pc = "o_process"
    /\ LET file == all_files[idx + 1]
       IN \E io \in IoOutcomes(TargetDir(file, options)) :
            LET r == process_single_file(file, options, io)
            IN /\ outDirs' = r.dirs
               /\ outFiles' = r.files
               /\ IF r.status = "copied"
                  THEN /\ successful_copies' = successful_copies + 1
                       /\ UNCHANGED excluded_files
                  ELSE /\ excluded_files' = Append(excluded_files, file)
                       /\ UNCHANGED successful_copies
               /\ processed' = Append(processed,
                      [file |-> file, index |-> idx, status |-> r.status,
                       target |-> TargetDir(file, options), dest |-> r.dest])
               /\ copiedAfterCancel' =
                      IF r.status = "copied" /\ stop_event
                      THEN copiedAfterCancel + 1 ELSE copiedAfterCancel
               /\ IF r.status = "error"
                  THEN pc' = "done" /\ outcome' = "raised"
                  ELSE pc' = "o_loop" /\ UNCHANGED outcome
    /\ reported' = Append(reported, Fraction(idx, total_files))
    /\ idx' = idx + 1
    /\ UNCHANGED <<ounchanged, all_files, total_files, cancelSeen, everPaused>>

\* ProcessFile as it would be if a skipped file were not put in the
\* excluded files
ProcessFileForgetsSkipped ==
    /\ Organizing /\ pc = "o_process"
    /\ LET file == all_files[idx + 1]
       IN \E io \in IoOutcomes(TargetDir(file, options)) :
            LET r == process_single_file(file, options, io)
            IN /\ outDirs' = r.dirs
               /\ outFiles' = r.files
               /\ IF r.status = "copied"
                  THEN /\ successful_copies' = successful_copies + 1
                       /\ UNCHANGED excluded_files
                  ELSE IF r.status = "error"
                  THEN /\ excluded_files' = Append(excluded_files, file)
                       /\ UNCHANGED successful_copies
                  ELSE UNCHANGED <<successful_copies, excluded_files>>
               /\ processed' = Append(processed,
                      [file |-> file, index |-> idx, status |-> r.status,
                       target |-> TargetDir(file, options), dest |-> r.dest])
               /\ copiedAfterCancel' =
                      IF r.status = "copied" /\ stop_event
                      THEN copiedAfterCancel + 1 ELSE copiedAfterCancel
    /\ reported' = Append(reported, Fraction(idx, total_files))
    /\ idx' = idx + 1
    /\ pc' = "o_loop"
    /\ UNCHANGED <<ounchanged, outcome, all_files, total_files, cancelSeen,
                   everPaused>>

\* lines 667-680: process the file, count it, report progress
ProcessFile ==
    /\ Organizing /\ pc = "o_process"
    /\ LET file == all_files[idx + 1]
       IN \E io \in IoOutcomes(TargetDir(file, options)) :
            LET r == process_single_file(file, options, io)
            IN /\ outDirs' = r.dirs
               /\ outFiles' = r.files
               /\ IF r.status = "copied"
                  THEN /\ successful_copies' = successful_copies + 1
                       /\ UNCHANGED excluded_files
                  ELSE /\ excluded_files' = Append(excluded_files, file)
                       /\ UNCHANGED successful_copies
               /\ processed' = Append(processed,
                      [file |-> file, index |-> idx, status |-> r.status,
                       target |-> TargetDir(file, options), dest |-> r.dest])
               /\ copiedAfterCancel' =
                      IF r.status = "copied" /\ stop_event
                      THEN copiedAfterCancel + 1 ELSE copiedAfterCancel
    /\ reported' = Append(reported, Fraction(idx, total_files))
    /\ idx' = idx + 1
    /\ pc' = "o_loop"
    /\ UNCHANGED <<ounchanged, outcome, all_files, total_files, cancelSeen,
                   everPaused>>

\* _final_report: the summary, and the log of the excluded files, whose
\* writing (mkdir, open, write) is not guarded
FinalReport ==
    /\ Organizing /\ pc = "o_report"
    /\ pc' = "done"
    /\ IF excluded_files = <<>>
       THEN outcome' = "returned"
       ELSE \E log_written \in BOOLEAN :
              outcome' = IF log_written THEN "returned" ELSE "raised"
    /\ UNCHANGED <<ounchanged, reported, all_files, total_files, idx,
                   successful_copies, excluded_files, outDirs, outFiles,
                   processed, copiedAfterCancel, cancelSeen, everPaused>>

NextOrganize ==
    \/ Enumerate
    \/ LoopCheckStop
    \/ LoopPauseWait
    \/ LoopCheckStopAfterPause
    \/ ProcessFile
    \/ FinalReport
    \/ SetCancel
    \/ SetPause
    \/ ClearPause

SpecOrganize == InitOrganize /\ [][NextOrganize]_vars

----------------------------------------------------------------------------
(* filtering.py: the filtering engine *)

\* Optional values: None is <<>>, a value v is <<v>>.
None == <<>>
Some(v) == <<v>>

\* --- strings as sequences of characters, and float(s) -------------------
Digits == {"0", "1", "2", "3", "4", "5", "6", "7", "8", "9"}
DigitVal(c) ==
    CASE c = "0" -> 0 [] c = "1" -> 1 [] c = "2" -> 2 [] c = "3" -> 3
      [] c = "4" -> 4 [] c = "5" -> 5 [] c = "6" -> 6 [] c = "7" -> 7
      [] c = "8" -> 8 [] c = "9" -> 9

RECURSIVE ToInt(_)
ToInt(ds) ==
    IF ds = <<>> THEN 0
    ELSE 10 * ToInt(SubSeq(ds, 1, Len(ds) - 1)) + DigitVal(ds[Len(ds)])

RECURSIVE Pow10(_)
Pow10(n) == IF n = 0 THEN 1 ELSE 10 * Pow10(n - 1)

\* a rational num/den with den > 0, or the exception of the computation
Rational(n, d) == [raised |-> "", num |-> n, den |-> d]
Raised(exc) == [raised |-> exc, num |-> 0, den |-> 1]
Less(a, b) == a.num * b.den < b.num * a.den

\* float(s) for strings of digits with at most one point; anything else of
\* the alphabet used here is a ValueError
Float(cs) ==
    LET dots == {i \in 1..Len(cs) : cs[i] = "."}
        ds == SelectSeq(cs, LAMBDA c : c \in Digits)
    IN IF /\ \A i \in 1..Len(cs) : cs[i] \in Digits \cup {"."}
          /\ Cardinality(dots) <= 1
          /\ ds # <<>>
       THEN IF dots = {} THEN Rational(ToInt(ds), 1)
            ELSE Rational(ToInt(ds), Pow10(Len(cs) - (CHOOSE i \in dots : TRUE)))
       ELSE Raised("ValueError")

\* s.lower().replace("s", "")
LowerWithoutS(cs) == SelectSeq(cs, LAMBDA c : c \notin {"s", "S"})

\* s.split("/")
RECURSIVE Split(_)
Split(cs) ==
    IF \A i \in 1..Len(cs) : cs[i] # "/" THEN <<cs>>
    ELSE LET i == CHOOSE j \in 1..Len(cs) :
                      cs[j] = "/" /\ \A k \in 1..(j - 1) : cs[k] # "/"
         IN <<SubSeq(cs, 1, i - 1)>> \o Split(SubSeq(cs, i + 1, Len(cs)))

\* _parse_shutter_speed: only ValueError is caught
parse_shutter_speed(cs) ==
    IF cs = <<>> THEN Rational(0, 1)
    ELSE LET s == LowerWithoutS(cs)
         IN IF \E i \in 1..Len(s) : s[i] = "/"
            THEN LET parts == Split(s)
                 IN IF Len(parts) # 2 THEN Rational(0, 1)
                    ELSE LET num == Float(parts[1])
                             den == Float(parts[2])
                         IN IF num.raised # "" \/ den.raised # ""
                            THEN Rational(0, 1)
                            ELSE IF den.num = 0 THEN Raised("ZeroDivisionError")
                            ELSE Rational(num.num * den.den, num.den * den.num)
            ELSE LET v == Float(s)
                 IN IF v.raised # "" THEN Rational(0, 1) ELSE v

\* --- the files and what their decoders give -----------------------------
\* EXIF values as the decoders leave them: aperture is None, a float (in
\* tenths) or, for a zero denominator, the rational itself
NoAperture == [kind |-> "none", v |-> 0]
FloatAperture(tenths) == [kind |-> "float", v |-> tenths]
TupleAperture(n) == [kind |-> "tuple", v |-> n]

NoDate == [kind |-> "none", v |-> 0]
DateString(yyyymmdd) == [kind |-> "date", v |-> yyyymmdd]

\* the record analyze_any decodes for file f (the keys the filter reads),
\* for the aperture ap of file 2
FilterRecord(f, ap) ==
    CASE f = 1 -> [date_taken |-> DateString(20210501), camera |-> Some("Canon"),
                   lens |-> None, aperture |-> FloatAperture(28),
                   iso |-> Some(100),
                   shutter_speed |-> Some(<<"1", "/", "4", "0", "0", "s">>)]
      [] f = 2 -> [date_taken |-> NoDate, camera |-> Some("Canon"),
                   lens |-> None, aperture |-> ap, iso |-> Some(800),
                   shutter_speed |-> Some(<<"2", ".", "0", "0", "s">>)]
      [] f = 4 -> [date_taken |-> DateString(20210502), camera |-> None,
                   lens |-> None, aperture |-> NoAperture, iso |-> None,
                   shutter_speed |-> None]
      [] OTHER -> [date_taken |-> NoDate, camera |-> None,
                   lens |-> None, aperture |-> NoAperture, iso |-> None,
                   shutter_speed |-> None]

\* file.stat().st_mtime as a calendar date
Mtime(f) == 20220100 + f

\* per file: extension, whether its decoder succeeds, the decoded record.
\* File 3 is an image that cannot be decoded.
FilterKind(ap) ==
    [f \in OFileIds |-> [ext |-> OSuffix(f), ok |-> f # 3, meta |-> FilterRecord(f, ap)]]

ApertureChoices == {FloatAperture(56), NoAperture, TupleAperture(28)}
FilterKindChoices == {FilterKind(ap) : ap \in ApertureChoices}

\* analyze_any(file): (filetype, metadata), metadata None when the decoder
\* returned None; the decoders are those of analysis.py
filter_analyze_any(f) ==
    LET r == analyze_any(f, fileKind[f])
    IN [raised |-> r.raised, filetype |-> r.category,
        metadata |-> IF r.result = <<>> THEN None ELSE Some(fileKind[f].meta)]

\* --- the criteria of the loop body, in the order of the code ------------
\* each gives "pass", "continue" (the file is dropped) or "raise"
Range(lo, hi) == Some([lo |-> lo, hi |-> hi])

\* e.lower() for the extensions used here
LowerExt(e) ==
    CASE e = ".JPG" -> ".jpg" [] e = ".MP4" -> ".mp4" [] OTHER -> e

has_photo_options(q) ==
    \/ q.cameras # {} \/ q.lenses # {} \/ q.aperture_range # None
    \/ q.iso_range # None \/ q.shutter_speed_range # None

ByFiletype(q, filetype) ==
    IF q.filetypes # {} /\ filetype \notin q.filetypes THEN "continue" ELSE "pass"

ByPhotoOptions(q, filetype) ==
    IF has_photo_options(q) /\ filetype # "image" THEN "continue" ELSE "pass"

ByExtension(q, f) ==
    IF q.extensions # {} /\ LowerExt(fileKind[f].ext) \notin {LowerExt(e) : e \in q.extensions}
    THEN "continue" ELSE "pass"

\* lines 105-136: date_taken parsed, else the modification date
ByDate(q, f, m) ==
    IF q.date_range = None THEN "pass"
    ELSE LET r == q.date_range[1]
             dt == IF m.date_taken.kind = "date" THEN m.date_taken.v ELSE Mtime(f)
         IN IF r.lo # None /\ dt < r.lo[1] THEN "continue"
            ELSE IF r.hi # None /\ dt > r.hi[1] THEN "continue"
            ELSE "pass"

ByCamera(q, m) ==
    IF q.cameras # {} /\ (m.camera = None \/ m.camera[1] \notin q.cameras)
    THEN "continue" ELSE "pass"

ByLens(q, m) ==
    IF q.lenses # {} /\ (m.lens = None \/ m.lens[1] \notin q.lenses)
    THEN "continue" ELSE "pass"

\* lines 155-170; a tuple compared with a float is a TypeError
ByAperture(q, m) ==
    IF q.aperture_range = None THEN "pass"
    ELSE LET r == q.aperture_range[1]
         IN IF m.aperture.kind = "none" THEN "continue"
            ELSE IF r.lo # None /\ m.aperture.kind = "tuple" THEN "raise"
            ELSE IF r.lo # None /\ m.aperture.v < r.lo[1] THEN "continue"
            ELSE IF r.hi # None /\ m.aperture.kind = "tuple" THEN "raise"
            ELSE IF r.hi # None /\ m.aperture.v > r.hi[1] THEN "continue"
            ELSE "pass"

ByIso(q, m) ==
    IF q.iso_range = None THEN "pass"
    ELSE LET r == q.iso_range[1]
         IN IF m.iso = None THEN "continue"
            ELSE IF r.lo # None /\ m.iso[1] < r.lo[1] THEN "continue"
            ELSE IF r.hi # None /\ m.iso[1] > r.hi[1] THEN "continue"
            ELSE "pass"

\* lines 191-211; the bounds are strings, an empty or None bound is skipped
ByShutterSpeed(q, m) ==
    IF q.shutter_speed_range = None THEN "pass"
    ELSE LET r == q.shutter_speed_range[1]
         IN IF m.shutter_speed = None \/ m.shutter_speed = Some(<<>>) THEN "continue"
            ELSE LET ss_val == parse_shutter_speed(m.shutter_speed[1])
                     has_min == r.lo # None /\ r.lo # Some(<<>>)
                     has_max == r.hi # None /\ r.hi # Some(<<>>)
                 IN IF ss_val.raised # "" THEN "raise"
                    ELSE IF has_min /\ parse_shutter_speed(r.lo[1]).raised # "" THEN "raise"
                    ELSE IF has_min /\ Less(ss_val, parse_shutter_speed(r.lo[1])) THEN "continue"
                    ELSE IF has_max /\ parse_shutter_speed(r.hi[1]).raised # "" THEN "raise"
                    ELSE IF has_max /\ Less(parse_shutter_speed(r.hi[1]), ss_val) THEN "continue"
                    ELSE "pass"

\* the first check of the body that does not pass
RECURSIVE FirstStop(_)
FirstStop(checks) ==
    IF checks = <<>> THEN "append"
    ELSE IF Head(checks) # "pass" THEN Head(checks)
    ELSE FirstStop(Tail(checks))

\* lines 72-136 only: the camera, lens, aperture, ISO and shutter criteria
\* and the image restriction of lines 86-95 are left out
EvaluateWithoutPhotoCriteria(f, q) ==
    LET a == filter_analyze_any(f)
    IN IF a.raised THEN "raise"
       ELSE IF a.metadata = None THEN "continue"
       ELSE LET m == a.metadata[1]
            IN FirstStop(<<ByFiletype(q, a.filetype), ByExtension(q, f),
                           ByDate(q, f, m)>>)

\* lines 72-215 for one file: "append", "continue" or "raise"
Evaluate(f, q) ==
    LET a == filter_analyze_any(f)
    IN IF a.raised THEN "raise"
       ELSE IF a.metadata = None THEN "continue"
       ELSE LET m == a.metadata[1]
            IN FirstStop(<<ByFiletype(q, a.filetype), ByPhotoOptions(q, a.filetype),
                           ByExtension(q, f), ByDate(q, f, m), ByCamera(q, m),
                           ByLens(q, m), ByAperture(q, m), ByIso(q, m),
                           ByShutterSpeed(q, m)>>)

QueryChoices ==
    {NoQuery,
     [NoQuery EXCEPT !.filetypes = {"image", "video"}],
     [NoQuery EXCEPT !.extensions = {".JPG", ".txt"}],
     [NoQuery EXCEPT !.date_range = Range(Some(20210101), Some(20211231))],
     [NoQuery EXCEPT !.cameras = {"Canon"}],
     [NoQuery EXCEPT !.lenses = {"EF50"}],
     [NoQuery EXCEPT !.aperture_range = Range(Some(20), Some(40))],
     [NoQuery EXCEPT !.aperture_range = Range(None, None)],
     [NoQuery EXCEPT !.iso_range = Range(None, Some(400))],
     [NoQuery EXCEPT !.shutter_speed_range =
          Range(Some(<<"1", "/", "5", "0", "0">>), Some(<<"1", "/", "1", "0", "0">>))],
     [NoQuery EXCEPT !.filetypes = {"image"}, !.cameras = {"Canon"},
                     !.aperture_range = Range(Some(20), None),
                     !.date_range = Range(None, Some(20211231))]}

FilterOptionChoices ==
    {o \in OptionChoices : ~o.by_media_type /\ o.structure = <<>>}

InitFilter ==
    /\ job = "filter"
    /\ InitControl
    /\ InitNoCall
    /\ input_list \in BoundedSeq(Entries, MaxList)
    /\ fileKind \in FilterKindChoices
    /\ query \in QueryChoices
    /\ options \in FilterOptionChoices
    /\ outFiles = <<>>
    /\ outDirs = {}
    /\ filtered_files = <<>>
    /\ handed = <<>>
    /\ pc = "f_start"
    /\ outcome = "running"
    /\ reported = <<>>
    /\ all_files = <<>>
    /\ total_files = 0
    /\ idx = 0
    /\ successful_copies = 0
    /\ excluded_files = <<>>
    /\ processed = <<>>
    /\ copiedAfterCancel = 0
    /\ cancelSeen = FALSE
    /\ everPaused = FALSE
    /\ paths = <<>>
    /\ pathIdx = 1
    /\ dirIdx = 1
    /\ files_to_process = <<>>
    /\ taskState = <<>>
    /\ yielded = {}
    /\ cur = 0
    /\ all_images = <<>>
    /\ all_videos = <<>>
    /\ all_others = <<>>
    /\ exitKind = "none"
    /\ result = <<>>

\* what the filtering loop leaves alone
funchanged == <<job, cvars, paths, fileKind, pathIdx, dirIdx, files_to_process,
                taskState, yielded, cur, all_images, all_videos, all_others,
                exitKind, result, input_list, options, query, successful_copies,
                excluded_files, outDirs, outFiles, processed, copiedAfterCancel,
                everPaused, xvars>>

\* lines 53-55
FilterStart ==
    /\ job = "filter" /\ pc = "f_start"
    /\ all_files' = NonDirs(input_list)
    /\ total_files' = Len(NonDirs(input_list))
    /\ filtered_files' = <<>>
    /\ pc' = "f_loop"
    /\ UNCHANGED <<funchanged, outcome, reported, idx, handed, cancelSeen>>

\* lines 57-60: the top of the loop and its Cancel check
FilterCheckStop ==
    /\ job = "filter" /\ pc = "f_loop"
    /\ IF idx = total_files
       THEN pc' = "f_call" /\ UNCHANGED cancelSeen
       ELSE IF stop_event
       THEN pc' = "f_call" /\ cancelSeen' = TRUE
       ELSE pc' = "f_pause" /\ UNCHANGED cancelSeen
    /\ UNCHANGED <<funchanged, outcome, reported, all_files, total_files, idx,
                   filtered_files, handed>>

\* lines 62-66: the pause wait; it ends when Pause clears or Cancel is set
FilterPauseWait ==
    /\ job = "filter" /\ pc = "f_pause"
    /\ IF pause_event /\ ~stop_event
       THEN UNCHANGED pc
       ELSE pc' = "f_stop2"
    /\ UNCHANGED <<funchanged, outcome, reported, all_files, total_files, idx,
                   filtered_files, handed, cancelSeen>>

\* lines 68-70: the Cancel check after the pause wait
FilterCheckStopAfterPause ==
    /\ job = "filter" /\ pc = "f_stop2"
    /\ IF stop_event
       THEN pc' = "f_call" /\ cancelSeen' = TRUE
       ELSE pc' = "f_eval" /\ UNCHANGED cancelSeen
    /\ UNCHANGED <<funchanged, outcome, reported, all_files, total_files, idx,
                   filtered_files, handed>>

\* FilterFile as it would be if a match were put at the front of the list
FilterFilePrepends ==
    /\ job = "filter" /\ pc = "f_eval"
    /\ LET file == all_files[idx + 1]
           r == Evaluate(file, query)
       IN IF r = "raise"
          THEN /\ outcome' = "raised"
               /\ pc' = "done"
               /\ UNCHANGED <<filtered_files, reported, idx>>
          ELSE /\ filtered_files' = IF r = "append"
                                     THEN <<file>> \o filtered_files
                                     ELSE filtered_files
               /\ reported' = Append(reported, Fraction(idx, total_files))
               /\ idx' = idx + 1
               /\ pc' = "f_loop"
               /\ UNCHANGED outcome
    /\ UNCHANGED <<funchanged, all_files, total_files, handed, cancelSeen>>

\* lines 72-215: decode the file, apply the criteria, report progress
FilterFile ==
    /\ job = "filter" /\ pc = "f_eval"
    /\ LET file == all_files[idx + 1]
           r == Evaluate(file, query)
       IN IF r = "raise"
          THEN /\ outcome' = "raised"
               /\ pc' = "done"
               /\ UNCHANGED <<filtered_files, reported, idx>>
          ELSE /\ filtered_files' = IF r = "append"
                                     THEN Append(filtered_files, file)
                                     ELSE filtered_files
               /\ reported' = Append(reported, Fraction(idx, total_files))
               /\ idx' = idx + 1
               /\ pc' = "f_loop"
               /\ UNCHANGED outcome
    /\ UNCHANGED <<funchanged, all_files, total_files, handed, cancelSeen>>

\* line 217: organize_files_by_options(filtered_files, ..., stop_event,
\* pause_event, progress_callback), the reorganization of a list of files
organize_files_by_options ==
    /\ job = "filter" /\ pc = "f_call"
    /\ handed' = Some([files |-> filtered_files, evaluated |-> idx])
    /\ all_files' = NonDirs(filtered_files)
    /\ total_files' = Len(NonDirs(filtered_files))
    /\ idx' = 0
    /\ IF Len(NonDirs(filtered_files)) = 0
       THEN pc' = "done" /\ outcome' = "returned"
       ELSE pc' = "o_loop" /\ UNCHANGED outcome
    /\ UNCHANGED <<funchanged, reported, filtered_files, cancelSeen>>

NextFilter ==
    \/ FilterStart
    \/ FilterCheckStop
    \/ FilterPauseWait
    \/ FilterCheckStopAfterPause
    \/ FilterFile
    \/ organize_files_by_options
    \/ LoopCheckStop
    \/ LoopPauseWait
    \/ LoopCheckStopAfterPause
    \/ ProcessFile
    \/ FinalReport
    \/ SetCancel
    \/ SetPause
    \/ ClearPause

SpecFilter == InitFilter /\ [][NextFilter]_vars

----------------------------------------------------------------------------
(* The runs under fair scheduling *)

\* the thread that runs the entry point: the walk, collection, filtering and
\* reorganization loops
Coordinator ==
    \/ WalkCheckStop \/ WalkPauseWait \/ WalkDir \/ Submit \/ AsCompleted
    \/ CollCheckStop \/ CollPauseWait \/ CollResult \/ ExitWith \/ Finish
    \/ Enumerate \/ LoopCheckStop \/ LoopPauseWait \/ LoopCheckStopAfterPause
    \/ ProcessFile \/ FinalReport
    \/ FilterStart \/ FilterCheckStop \/ FilterPauseWait
    \/ FilterCheckStopAfterPause \/ FilterFile \/ organize_files_by_options

\* the threads of the pool
Workers == WorkerStart \/ WorkerFinish

\* one run of each entry point on a small tree: roots with one image
\* (decodable, or a RAW file that is not) or none, lists of a.jpg, b.mp4 and
\* a directory, a query with and without an aperture range
InitFairRuns ==
    \/ /\ InitAnalyze
       /\ SeqToSet(paths) \subseteq {"D2", "D3"}
       /\ fileKind[2] = [ext |-> ".txt", ok |-> TRUE]
    \/ /\ InitOrganize
       /\ IF job = "organize" THEN SeqToSet(input_list) \subseteq {"D1", "D2"}
          ELSE SeqToSet(input_list) \subseteq {0, 1, 4}
       /\ options = [by_media_type |-> FALSE, structure |-> <<>>, on_exist |-> "skip"]
       /\ outFiles = <<>>
    \/ /\ InitFilter
       /\ SeqToSet(input_list) \subseteq {0, 1, 2}
       /\ fileKind = FilterKind(TupleAperture(28))
       /\ query \in {NoQuery, [NoQuery EXCEPT !.aperture_range = Range(Some(20), Some(40))]}
       /\ options.on_exist = "skip"

NextFairRuns ==
    \/ Coordinator
    \/ Workers
    \/ SetCancel
    \/ SetPause
    \/ ClearPause

\* the operating system schedules every thread that can take a step
SpecFairRuns ==
    /\ InitFairRuns /\ [][NextFairRuns]_vars
    /\ WF_vars(Coordinator)
    /\ WF_vars(Workers)

----------------------------------------------------------------------------
(* Properties of analyze_directories *)
Returned == outcome = "returned"
TableTypes == <<"image", "video", "other">>
Occurrences(s, x) == Cardinality({k \in DOMAIN s : s[k] = x})

\* the fixed column set of each category
FixedColumns(type_name) ==
    CASE type_name = "image" ->
           {"name", "filetype", "directory", "date_taken", "time_taken",
            "camera", "lens", "focal_length", "aperture", "iso",
            "shutter_speed", "size_bytes", "size (MB)", "width", "height"}
      [] type_name = "video" ->
           {"name", "filetype", "directory", "date_taken", "time_taken",
            "size_bytes", "size (MB)", "width", "height", "duration_ms",
            "codec", "frame_rate"}
      [] OTHER ->
           {"name", "filetype", "directory", "size_bytes", "size (MB)"}

\* C1: every return path of analyze_directories yields three tables whose
\* column set is the fixed column set of their category, with or without rows.
C1_FixedColumnSets ==
    (job = "analyze" /\ Returned) =>
        /\ Len(result) = 3
        /\ \A t \in 1..3 : result[t].columns = FixedColumns(TableTypes[t])

\* a normal completion with a populated images table and an empty videos table
C1_Witness ==
    /\ job = "analyze" /\ Returned /\ ~cancelSeen
    /\ Len(result[1].rows) > 0
    /\ Len(result[2].rows) = 0

\* C2: once a Cancel check of analyze_directories found the signal set, the
\* call raises nothing and returns three zero-row tables, whatever was collected.
C2_CancelReturnsEmpty ==
    (job = "analyze" /\ cancelSeen) =>
        /\ outcome # "raised"
        /\ Returned => \A t \in 1..3 : Len(result[t].rows) = 0

\* Cancel seen during collection after a record had been collected
C2_Witness ==
    /\ job = "analyze" /\ cancelSeen /\ Returned
    /\ Len(all_images) + Len(all_videos) + Len(all_others) > 0

\* C4: a decoder failure of one file never leaves analyze_directories as an
\* exception: the scan runs to completion.
C4_DecodeFailureNeverPropagates ==
    job = "analyze" => outcome # "raised"

\* C5: every file contributes at most one row over the three tables, and the
\* row is in the table of the category of its extension.
C5_AtMostOneRowPerFile ==
    (job = "analyze" /\ Returned) =>
        \A f \in FileIds :
            /\ Occurrences(result[1].rows, f) + Occurrences(result[2].rows, f)
                 + Occurrences(result[3].rows, f) <= 1
            /\ \A t \in 1..3 :
                 Occurrences(result[t].rows, f) > 0 =>
                     TableTypes[t] = Category(fileKind[f].ext)

\* the files a walk of the roots enumerates, in order
RECURSIVE FilesOfDirs(_)
FilesOfDirs(dirs) ==
    IF dirs = <<>> THEN <<>> ELSE Filenames(Head(dirs)) \o FilesOfDirs(Tail(dirs))
RECURSIVE Enumerated(_)
Enumerated(ps) ==
    IF ps = <<>> THEN <<>> ELSE FilesOfDirs(Walk(Head(ps))) \o Enumerated(Tail(ps))

\* the rows a run of the input yields for file f in table t when nothing raises
ExpectedRows(t, f) ==
    IF /\ Category(fileKind[f].ext) = TableTypes[t]
       /\ Len(analyze_any(f, fileKind[f]).result) > 0
    THEN Occurrences(Enumerated(paths), f) ELSE 0

SomeDecoderRaises ==
    \E k \in DOMAIN Enumerated(paths) :
        analyze_any(Enumerated(paths)[k], fileKind[Enumerated(paths)[k]]).raised

\* the outcome of a run without Cancel is a function of the input alone
C7_ResultIndependentOfPause ==
    (job = "analyze" /\ outcome # "running" /\ ~cancelSeen) =>
        IF SomeDecoderRaises
        THEN outcome = "raised"
        ELSE /\ Returned
             /\ \A t \in 1..3 : \A f \in FileIds :
                  Occurrences(result[t].rows, f) = ExpectedRows(t, f)

\* a step taken while Pause is set and Cancel is not starts no directory and
\* no completed task
C7_NoUnitStartedWhilePaused ==
    (job = "analyze" /\ pause_event /\ ~stop_event) =>
        UNCHANGED <<pathIdx, dirIdx, files_to_process, idx, all_images,
                    all_videos, all_others, reported>>

----------------------------------------------------------------------------
(* Properties of the reorganization engine *)
IsImage(f) == OSuffix(f) \in o_image_extensions
IsVideo(f) == OSuffix(f) \in o_video_extensions
MetadataOf(f) == IF IsImage(f) THEN get_image_metadata(f) ELSE get_video_metadata(f)
MediaRoot(f) ==
    IF options.by_media_type THEN <<IF IsImage(f) THEN "Photos" ELSE "Videos">> ELSE <<>>
Unresolved(f) ==
    {k \in 1..Len(options.structure) : MetadataOf(f).get[options.structure[k]] = <<>>}
FirstUnresolved(f) == CHOOSE k \in Unresolved(f) : \A j \in Unresolved(f) : k <= j

\* C3 (as stated): once the loop of generated_directory /
\* generated_directory_from_list has observed Cancel, no further file is
\* processed, at most one file was copied after Cancel was set, and the call
\* returns without error.
C3_CancelEndsTheRunCleanly ==
    (Organizing /\ cancelSeen) =>
        /\ copiedAfterCancel <= 1
        /\ Len(processed) = idx
        /\ \A k \in 1..Len(processed) : processed[k].index < idx
        /\ outcome # "raised"

\* C6 (as stated): the k-th progress value is k / total_files, the values lie
\* in [0,1] and never decrease, there is one per completed unit, and a run
\* that is not cancelled ends with 1.0.
C6_ProgressIsCompletedOverTotal ==
    /\ Len(reported) = idx
    /\ \A k \in 1..Len(reported) :
         /\ reported[k] = <<k, total_files>>
         /\ 0 <= reported[k][1] /\ reported[k][1] <= reported[k][2]
         /\ k > 1 => reported[k-1][1] * reported[k][2] <= reported[k][1] * reported[k-1][2]
    /\ (outcome # "running" /\ ~cancelSeen /\ total_files > 0) =>
         /\ Len(reported) = total_files
         /\ reported[Len(reported)][1] = reported[Len(reported)][2]

\* C8 (as stated): for an image or video with an unresolved configured
\* dimension the target directory is the resolved values before the first
\* unresolved dimension followed by exactly one "No Info" level.
C8_SingleNoInfoLevel ==
    Organizing =>
        \A k \in 1..Len(processed) :
            LET f == processed[k].file
            IN ((IsImage(f) \/ IsVideo(f)) /\ Unresolved(f) # {}) =>
                   processed[k].target =
                       MediaRoot(f)
                       \o [j \in 1..(FirstUnresolved(f) - 1) |->
                              MetadataOf(f).get[options.structure[j]][1]]
                       \o <<"No Info">>

Renamed(f, k) == OStem(f) \o "_" \o ToString(k) \o OSuffix(f)

\* one call of _process_single_file under on_exist = "rename"
C9_RenameStep ==
    (Organizing /\ pc = "o_process" /\ options.on_exist = "rename") =>
        LET f == all_files[idx + 1]
            dir == TargetDir(f, options)
        IN /\ \A p \in DOMAIN outFiles :
                p \in DOMAIN outFiles' /\ outFiles'[p] = outFiles[p]
           /\ (Exists(outFiles, FilePath(dir, OName(f)))
                 /\ successful_copies' = successful_copies + 1) =>
                \E k \in 1..(Cardinality(DOMAIN outFiles) + 1) :
                    /\ \A j \in 1..(k - 1) : Exists(outFiles, FilePath(dir, Renamed(f, j)))
                    /\ ~Exists(outFiles, FilePath(dir, Renamed(f, k)))
                    /\ DOMAIN outFiles' = DOMAIN outFiles \cup {FilePath(dir, Renamed(f, k))}
                    /\ outFiles'[FilePath(dir, Renamed(f, k))] = f

\* C9: under on_exist = "rename" a file whose destination exists is copied
\* to <stem>_<k><suffix> for the smallest k >= 1 that does not exist, and no
\* file already in the output tree is overwritten.
C9_RenameTakesSmallestFreeSuffix == [][C9_RenameStep]_vars

\* the second a.jpg of a run went to a_3.jpg: a.jpg and a_2.jpg were there
\* before the run and a_1.jpg was taken by the first
C9_Witness ==
    /\ Organizing /\ options.on_exist = "rename"
    /\ \E k \in 1..Len(processed) :
         /\ processed[k].status = "copied"
         /\ processed[k].dest.name = "a_3.jpg"
         /\ outFiles[FilePath(processed[k].dest.dir, "a.jpg")] = 0

\* one call of _process_single_file under on_exist = "skip" whose
\* destination exists
C10_SkipStep ==
    (/\ Organizing /\ pc = "o_process" /\ options.on_exist = "skip"
     /\ Exists(outFiles, FilePath(TargetDir(all_files[idx + 1], options),
                                  OName(all_files[idx + 1])))
     /\ idx' = idx + 1) =>
        /\ processed'[Len(processed')].status = "skipped"
        /\ outFiles' = outFiles
        /\ outDirs' = outDirs
        /\ successful_copies' = successful_copies
        /\ excluded_files' = Append(excluded_files, all_files[idx + 1])

\* C10: under on_exist = "skip" a file whose destination exists gets status
\* "skipped", nothing is written, the existing file stays as it was, and the
\* file is added to the excluded files.
C10_SkipLeavesDestinationUntouched == [][C10_SkipStep]_vars

\* a file was skipped and its destination still holds the older content
C10_Witness ==
    /\ Organizing /\ options.on_exist = "skip"
    /\ \E k \in 1..Len(processed) :
         /\ processed[k].status = "skipped"
         /\ outFiles[processed[k].dest] = 0
         /\ processed[k].file \in SeqToSet(excluded_files)

----------------------------------------------------------------------------
(* Properties of the reorganization loops: errors, counts, the log *)

\* what _process_single_file gives at the current file for every outcome of
\* the filesystem: a failing mkdir or a failing copy is status "error" and
\* leaves the output files as they were
C11_ErrorStatus ==
    (Organizing /\ pc = "o_process") =>
        LET f == all_files[idx + 1]
            dir == TargetDir(f, options)
        IN \A io \in IoOutcomes(dir) :
             LET r == process_single_file(f, options, io)
             IN /\ r.status \in {"copied", "skipped", "error"}
                /\ (io = "mkdir_fails"
                      \/ (io = "copy_fails" /\ ~Skips(outFiles, f, dir, options.on_exist)))
                     => (r.status = "error" /\ r.files = outFiles)
                /\ io = "ok" => r.status # "error"

\* the step of the loop that got "error": the file joins the excluded files,
\* nothing is raised and the loop goes on to its next iteration
C11_ErrorStep ==
    (/\ Organizing /\ pc = "o_process" /\ idx' = idx + 1
     /\ processed'[Len(processed')].status = "error") =>
        /\ excluded_files' = Append(excluded_files, all_files[idx + 1])
        /\ successful_copies' = successful_copies
        /\ outFiles' = outFiles
        /\ outcome' = "running"
        /\ pc' = "o_loop"

\* the files after a failed one are processed too: a loop that ended without
\* Cancel went through the whole list
C11_LaterFilesProcessed ==
    (Organizing /\ pc \in {"o_report", "done"} /\ ~cancelSeen) =>
        \A k \in 1..total_files :
            /\ k <= Len(processed)
            /\ processed[k].file = all_files[k]

\* C11: a failing mkdir or copy gives the file status "error" and puts it in
\* the excluded files, no exception leaves _process_single_file, and every
\* later file of the input list is still processed.
C11_ErrorIsRecordedAndBatchContinues ==
    [](C11_ErrorStatus /\ C11_LaterFilesProcessed) /\ [][C11_ErrorStep]_vars

\* the first file failed, the second was copied after it, the run returned
C11_Witness ==
    /\ Organizing /\ pc = "done" /\ outcome = "returned" /\ ~cancelSeen
    /\ Len(processed) = 2
    /\ processed[1].status = "error"
    /\ processed[2].status = "copied"
    /\ excluded_files = <<processed[1].file>>

\* C12: each processed file is counted exactly once, as copied or as
\* excluded, so copied + len(excluded) is the number of files processed; in a
\* run that is not cancelled that number is the total handed to _final_report.
C12_EveryFileCountedOnce ==
    Organizing =>
        /\ successful_copies + Len(excluded_files) = Len(processed)
        /\ successful_copies =
               Cardinality({k \in 1..Len(processed) : processed[k].status = "copied"})
        /\ Len(excluded_files) =
               Cardinality({k \in 1..Len(processed) :
                               processed[k].status \in {"skipped", "error"}})
        /\ \A f \in OFileIds :
               Occurrences(excluded_files, f) =
                   Cardinality({k \in 1..Len(processed) :
                                   /\ processed[k].file = f
                                   /\ processed[k].status # "copied"})
        /\ (pc \in {"o_report", "done"} /\ ~cancelSeen) =>
               successful_copies + Len(excluded_files) = total_files

\* a run that was not cancelled ended with copies and excluded files
C12_Witness ==
    /\ Organizing /\ pc = "done" /\ ~cancelSeen
    /\ successful_copies >= 1 /\ Len(excluded_files) >= 1
    /\ successful_copies + Len(excluded_files) = total_files

\* C13 (as stated): a failing write of the exclusion log is never raised to
\* the caller of generated_directory / generated_directory_from_list.
C13_LogFailureIsNotRaised ==
    (Organizing /\ pc = "done") => outcome = "returned"

----------------------------------------------------------------------------
(* Properties of the worker pool of analyze_directories *)

\* C17 (as stated): once the collection loop has observed Cancel, the call
\* returns without waiting for a decode task: the queued tasks are cancelled
\* and the return is not held back by a task that is still running.
C17_CancelReturnsWithoutWaiting ==
    (job = "analyze" /\ pc = "exit_wait" /\ exitKind = "cancel") =>
        /\ \A k \in DOMAIN taskState : taskState[k] # "pending"
        /\ ENABLED ExitWith

\* the futures whose result the collection loop has taken
Consumed ==
    IF pc = "collect" \/ (pc = "done" /\ exitKind = "none")
    THEN yielded ELSE yielded \ {cur}

\* the rows task k contributes to table t
RowsOfTask(t, k) ==
    LET f == files_to_process[k]
        r == analyze_any(f, fileKind[f])
    IN IF ~r.raised /\ r.category = TableTypes[t] THEN Len(r.result) ELSE 0

RECURSIVE SumRows(_, _)
SumRows(t, tasks) ==
    IF tasks = {} THEN 0
    ELSE LET k == CHOOSE j \in tasks : TRUE
         IN RowsOfTask(t, k) + SumRows(t, tasks \ {k})

Collected == <<all_images, all_videos, all_others>>

\* C20: for fixed files and no Cancel the rows of each table do not depend
\* on the order in which the pool completes the tasks: whatever futures were
\* consumed so far, each contributed its own record once to the table of its
\* own category, and the returned tables hold the records of all the tasks.
C20_RowsIndependentOfCompletionOrder ==
    (job = "analyze" /\ pc \notin {"walk", "walk_pause"} /\ total_files > 0) =>
        /\ \A t \in 1..3 :
             /\ Len(Collected[t]) = SumRows(t, Consumed)
             /\ \A f \in FileIds :
                  Cardinality({j \in 1..Len(Collected[t]) : Collected[t][j].file = f})
                    = SumRows(t, {k \in Consumed : files_to_process[k] = f})
        /\ (Returned /\ ~cancelSeen) =>
             \A t \in 1..3 : \A f \in FileIds :
                 Occurrences(result[t].rows, f)
                   = SumRows(t, {k \in 1..total_files : files_to_process[k] = f})

\* a run whose first submitted task was consumed last returned populated
\* tables
C20_Witness ==
    /\ job = "analyze" /\ Returned /\ ~cancelSeen
    /\ total_files >= 2 /\ cur = 1
    /\ files_to_process[1] # files_to_process[2]
    /\ Len(result[1].rows) + Len(result[2].rows) + Len(result[3].rows) >= 2

----------------------------------------------------------------------------
(* Properties of generate_images_table *)

\* C16 (as stated): on every return of generate_images_table with zero image
\* rows (no roots, no image files, every decode failed, Cancel observed in
\* the walk or in the collection) the images table carries the fixed image
\* column set, "name" included, and the videos and others tables have no rows.
C16_EmptyImagesTableKeepsColumns ==
    (job = "images_table" /\ Returned /\ Len(result[1].rows) = 0) =>
        /\ "name" \in result[1].columns
        /\ result[1].columns = GenerateEmptyColumns
        /\ Len(result[2].rows) = 0
        /\ Len(result[3].rows) = 0

----------------------------------------------------------------------------
(* Properties of filter_files *)

\* the decoded value of a field, absent when the decoder has none
ApertureValue(m) == IF m.aperture.kind = "float" THEN Some(m.aperture.v) ELSE None
DateOf(f, m) == IF m.date_taken.kind = "date" THEN m.date_taken.v ELSE Mtime(f)
Within(v, r, LessThan(_, _)) ==
    /\ v # None
    /\ r.lo # None => ~LessThan(v[1], r.lo[1])
    /\ r.hi # None => ~LessThan(r.hi[1], v[1])
IntLess(a, b) == a < b
ShutterLess(a, b) == Less(parse_shutter_speed(a), parse_shutter_speed(b))

\* file f decoded and meets every criterion that query q specifies
Matches(f, q) ==
    LET m == fileKind[f].meta
        category == Category(fileKind[f].ext)
    IN /\ fileKind[f].ok
       /\ q.filetypes # {} => category \in q.filetypes
       /\ has_photo_options(q) => category = "image"
       /\ q.extensions # {} =>
              \E e \in q.extensions : LowerExt(e) = LowerExt(fileKind[f].ext)
       /\ q.date_range # None => Within(Some(DateOf(f, m)), q.date_range[1], IntLess)
       /\ q.cameras # {} => \E c \in q.cameras : m.camera = Some(c)
       /\ q.lenses # {} => \E l \in q.lenses : m.lens = Some(l)
       /\ q.aperture_range # None =>
              \/ Within(ApertureValue(m), q.aperture_range[1], IntLess)
              \/ m.aperture.kind = "tuple" /\ q.aperture_range = Range(None, None)
       /\ q.iso_range # None => Within(m.iso, q.iso_range[1], IntLess)
       /\ q.shutter_speed_range # None =>
              Within(m.shutter_speed, q.shutter_speed_range[1], ShutterLess)

\* the elements of s that are files matching the query, in the order of s
RECURSIVE MatchingFiles(_)
MatchingFiles(s) ==
    IF s = <<>> THEN <<>>
    ELSE IF ~is_dir(Head(s)) /\ Matches(Head(s), query)
         THEN <<Head(s)>> \o MatchingFiles(Tail(s))
         ELSE MatchingFiles(Tail(s))

\* h can be obtained from s by deleting elements
RECURSIVE IsSubsequence(_, _)
IsSubsequence(h, s) ==
    IF h = <<>> THEN TRUE
    ELSE IF s = <<>> THEN FALSE
    ELSE IF Head(h) = Head(s) THEN IsSubsequence(Tail(h), Tail(s))
    ELSE IsSubsequence(h, Tail(s))

C15_ApertureRange ==
    (/\ job = "filter" /\ pc = "f_eval" /\ query.aperture_range # None
     /\ fileKind[all_files[idx + 1]].ok) =>
        LET m == fileKind[all_files[idx + 1]].meta
        IN ByAperture(query, m) =
               IF Within(ApertureValue(m), query.aperture_range[1], IntLess)
               THEN "pass" ELSE "continue"

\* C19 (as stated): the fractions reported within one filter_files run, by
\* the filtering loop and by the reorganization after it, never decrease.
C19_ProgressNeverDecreases ==
    job = "filter" =>
        \A k \in 2..Len(reported) :
            reported[k-1][1] * reported[k][2] <= reported[k][1] * reported[k-1][2]

----------------------------------------------------------------------------
(* Properties of the pause waits *)
PauseWaits == {"walk_pause", "coll_pause", "o_pause", "f_pause"}
Terminated == outcome # "running"
BlockedWithCancel == pc \in PauseWaits /\ pause_event /\ stop_event

\* the step the coordinating thread takes from a pause wait in which Cancel
\* is set and Pause still is: it leaves the wait
C18_CancelEndsThePauseWait ==
    (BlockedWithCancel /\ Coordinator) => pc' \notin PauseWaits

\* C18: in each pausable loop a run blocked in the pause wait leaves it as
\* soon as Cancel is set with Pause still set, and then terminates; a run
\* terminates whenever Pause is eventually cleared for good or Cancel is
\* eventually set.
C18_PausedRunsTerminate ==
    /\ [][C18_CancelEndsThePauseWait]_vars
    /\ (BlockedWithCancel ~> Terminated)
    /\ ((<>[]~pause_event \/ <>stop_event) => <>Terminated)

\* a run that had been blocked in a pause wait ended on Cancel with Pause
\* still set
C18_Witness ==
    /\ job = "analyze" /\ everPaused /\ pause_event /\ stop_event
    /\ cancelSeen /\ Returned /\ total_files > 0

----------------------------------------------------------------------------
(* The photo criteria restrict the filter to images *)
FiletypeOf(f) == filter_analyze_any(f).filetype

\* C22: when any of cameras, lenses, aperture_range, iso_range or
\* shutter_speed_range is specified, every file of the filtered list, and of
\* the list handed to reorganization, is of the image category, with or
\* without a filetypes criterion: no video and no "other" file gets through.
C22_PhotoCriteriaLetOnlyImagesThrough ==
    (job = "filter" /\ has_photo_options(query)) =>
        /\ \A i \in 1..Len(filtered_files) : FiletypeOf(filtered_files[i]) = "image"
        /\ handed # <<>> =>
               \A i \in 1..Len(handed[1].files) :
                   FiletypeOf(handed[1].files[i]) = "image"

\* under a photo criterion and no filetypes criterion an image and a file
\* that is not an image and has metadata were both evaluated; only the
\* image was handed over
C22_Witness ==
    /\ job = "filter" /\ has_photo_options(query) /\ query.filetypes = {}
    /\ handed # <<>>
    /\ Len(input_list) = 2 /\ handed[1].evaluated = 2
    /\ \E i \in 1..2 : /\ ~is_dir(input_list[i])
                       /\ FiletypeOf(input_list[i]) # "image"
                       /\ fileKind[input_list[i]].ok
    /\ Len(handed[1].files) = 1

----------------------------------------------------------------------------
(* Cancel during the filtering loop *)
\* the filtering loop ended by break (lines 58-60, 68-70): some
\* non-directory input was not evaluated
FilterLoopCancelled ==
    /\ job = "filter"
    /\ \/ pc = "f_call" /\ idx < total_files
       \/ handed # <<>> /\ handed[1].evaluated < Len(NonDirs(input_list))

----------------------------------------------------------------------------
(* Calls of the helper functions: the argument is drawn from a bounded set, *)
(* the call computes the function.                                          *)
MaxChars == 4

\* no batch job is running
InitNoBatch ==
    /\ InitNoFilter
    /\ reported = <<>>
    /\ paths = <<>>
    /\ fileKind = <<>>
    /\ pathIdx = 1
    /\ dirIdx = 1
    /\ files_to_process = <<>>
    /\ total_files = 0
    /\ taskState = <<>>
    /\ yielded = {}
    /\ cur = 0
    /\ idx = 0
    /\ all_images = <<>>
    /\ all_videos = <<>>
    /\ all_others = <<>>
    /\ exitKind = "none"
    /\ result = <<>>
    /\ cancelSeen = FALSE
    /\ everPaused = FALSE
    /\ input_list = <<>>
    /\ options = [by_media_type |-> FALSE, structure |-> <<>>, on_exist |-> "rename"]
    /\ all_files = <<>>
    /\ successful_copies = 0
    /\ excluded_files = <<>>
    /\ outDirs = {}
    /\ outFiles = <<>>
    /\ processed = <<>>
    /\ copiedAfterCancel = 0

\* the state outside any batch run and outside the desktop app
InitNoRun ==
    /\ InitControl
    /\ InitNoUi
    /\ InitNoBatch

\* what a call leaves alone
callunchanged == <<job, cvars, reported, avars, input_list, options, all_files,
                   successful_copies, excluded_files, outDirs, outFiles,
                   processed, copiedAfterCancel, fvars, arg, uvars>>

\* --- _parse_shutter_speed(s) ---------------------------------------------
ShutterChars == {"0", "1", "2", "/", ".", "s", "x"}

InitParseShutterSpeed ==
    /\ job = "parse_shutter_speed"
    /\ pc = "call"
    /\ outcome = "running"
    /\ arg \in BoundedSeq(ShutterChars, MaxChars)
    /\ ret = <<>>
    /\ InitNoRun

ParseShutterSpeedCall ==
    /\ job = "parse_shutter_speed" /\ pc = "call"
    /\ ret' = Some(parse_shutter_speed(arg))
    /\ outcome' = IF parse_shutter_speed(arg).raised # "" THEN "raised" ELSE "returned"
    /\ pc' = "done"
    /\ UNCHANGED callunchanged

SpecParseShutterSpeed == InitParseShutterSpeed /\ [][ParseShutterSpeedCall]_vars

\* --- the numbers C25 names ------------------------------------------------
SameNumber(a, b) == a.num * b.den = b.num * a.den
WithoutTrailingS(cs) ==
    IF cs # <<>> /\ cs[Len(cs)] = "s" THEN SubSeq(cs, 1, Len(cs) - 1) ELSE cs
IsNumeric(cs) == Float(cs).raised = ""
IsFraction(cs) ==
    /\ Len(Split(cs)) = 2
    /\ IsNumeric(Split(cs)[1])
    /\ IsNumeric(Split(cs)[2])

\* C25 (as stated): _parse_shutter_speed returns a number for every string
\* and never raises: num/den for "num/den" with an optional trailing s, the
\* number for a plain numeric string, 0.0 for every string that is neither
\* (not even with its letters s taken out).
C25_ParseShutterSpeedNeverRaises ==
    (job = "parse_shutter_speed" /\ ret # <<>>) =>
        LET s == WithoutTrailingS(arg)
            r == ret[1]
        IN /\ r.raised = ""
           /\ IsNumeric(s) => SameNumber(r, Float(s))
           /\ (IsFraction(s) /\ Float(Split(s)[2]).num # 0) =>
                  SameNumber(r, Rational(Float(Split(s)[1]).num * Float(Split(s)[2]).den,
                                         Float(Split(s)[1]).den * Float(Split(s)[2]).num))
           /\ (~IsNumeric(LowerWithoutS(arg)) /\ ~IsFraction(LowerWithoutS(arg))) =>
                  SameNumber(r, Rational(0, 1))

----------------------------------------------------------------------------
(* Rational EXIF values in analyze_standard_image and in the images table *)
MaxRational == 2

\* a value of the record: None, a float num/den, the tuple (num, den) as
\* piexif gave it, or the string _format_shutter built from num and den
NoValue == [kind |-> "none", num |-> 0, den |-> 1]
FloatValue(n, d) == [kind |-> "float", num |-> n, den |-> d]
TupleValue(n, d) == [kind |-> "tuple", num |-> n, den |-> d]
SecondsString(n, d) == [kind |-> "str_seconds", num |-> n, den |-> d]
FractionString(n, d) == [kind |-> "str_fraction", num |-> n, den |-> d]

\* exif.get(tag): None or a rational (num, den)
ExifRationals ==
    {NoValue} \cup {TupleValue(n, d) : n \in 0..MaxRational, d \in 0..MaxRational}

\* analysis.py 18-21
_rational_to_float(value) ==
    IF value.kind = "tuple" /\ value.den # 0
    THEN FloatValue(value.num, value.den)
    ELSE value

\* analysis.py 40-46
_format_shutter(value) ==
    IF value.kind = "tuple" /\ value.den # 0
    THEN IF value.num > value.den
         THEN SecondsString(value.num, value.den)
         ELSE FractionString(value.num, value.den)
    ELSE value

\* analysis.py 172-177: the three fields read from rationals
DecodedFields(exif) ==
    [focal_length |-> _rational_to_float(exif.FocalLength),
     aperture |-> _rational_to_float(exif.FNumber),
     shutter_speed |-> _format_shutter(exif.ExposureTime)]

\* common.py 15-19: float(r), None when float raises
rational_to_float(r) ==
    IF r.kind = "float" THEN r ELSE NoValue

\* analysis.py 351-354: aperture and focal_length are mapped, shutter_speed
\* is not
FormattedFields(record) ==
    [focal_length |-> rational_to_float(record.focal_length),
     aperture |-> rational_to_float(record.aperture),
     shutter_speed |-> record.shutter_speed]

InitDecodeExif ==
    /\ job = "analyze_standard_image"
    /\ pc = "call"
    /\ outcome = "running"
    /\ arg \in [FocalLength : ExifRationals, FNumber : ExifRationals,
                ExposureTime : ExifRationals]
    /\ ret = <<>>
    /\ InitNoRun

\* analyze_standard_image returns the record
DecodeExif ==
    /\ job = "analyze_standard_image" /\ pc = "call"
    /\ ret' = Some([record |-> DecodedFields(arg), row |-> None])
    /\ pc' = "decoded"
    /\ UNCHANGED <<callunchanged, outcome>>

\* format_df builds the row of the images table
FormatRow ==
    /\ job = "analyze_standard_image" /\ pc = "decoded"
    /\ ret' = Some([ret[1] EXCEPT !.row = Some(FormattedFields(ret[1].record))])
    /\ pc' = "done"
    /\ outcome' = "returned"
    /\ UNCHANGED callunchanged

SpecDecodeExif == InitDecodeExif /\ [][DecodeExif \/ FormatRow]_vars

ExifTag(field) ==
    CASE field = "focal_length" -> "FocalLength"
      [] field = "aperture" -> "FNumber"
      [] field = "shutter_speed" -> "ExposureTime"
RationalFields == {"focal_length", "aperture", "shutter_speed"}
ZeroDenominator(v) == v.kind = "tuple" /\ v.den = 0

\* C26 (as stated): a rational EXIF value with a zero denominator makes that
\* field None in the decoded record and in the images table; the record is
\* still produced and its other fields keep their values.
C26_ZeroDenominatorGivesNone ==
    (job = "analyze_standard_image" /\ ret # <<>>) =>
        \A field \in RationalFields :
            LET v == arg[ExifTag(field)]
            IN /\ ZeroDenominator(v) =>
                      /\ ret[1].record[field] = NoValue
                      /\ ret[1].row # None => ret[1].row[1][field] = NoValue
               /\ (v.kind = "tuple" /\ v.den # 0) =>
                      /\ ret[1].record[field].kind # "none"
                      /\ ret[1].record[field].num = v.num
                      /\ ret[1].record[field].den = v.den

----------------------------------------------------------------------------
(* The media level of the output tree *)
MediaFolders == {"Photos", "Videos"}

\* C23: with by_media_type set every image is placed under output/Photos,
\* every video under output/Videos, and a file that is neither in a
\* directory below output that is under neither of the two; with
\* by_media_type unset no Photos or Videos level is created: every level of
\* a target directory is a metadata value of the file or "No Info".  A
\* copied file lies in its target directory.
C23_MediaTypeLevel ==
    job \in {"organize", "organize_list"} =>
        \A i \in 1..Len(processed) :
            LET f == processed[i].file
                t == processed[i].target
            IN /\ IF options.by_media_type
                  THEN /\ t # <<>>
                       /\ IsImage(f) => t[1] = "Photos"
                       /\ (IsVideo(f) /\ ~IsImage(f)) => t[1] = "Videos"
                       /\ (~IsImage(f) /\ ~IsVideo(f)) => t[1] \notin MediaFolders
                  ELSE \A k \in 1..Len(t) :
                           \/ t[k] = "No Info"
                           \/ \E d \in Dims : MetadataOf(f).get[d] = <<t[k]>>
               /\ processed[i].status = "copied" =>
                      /\ processed[i].dest.dir = t
                      /\ Exists(outFiles, processed[i].dest)
                      /\ t \in outDirs

\* a run with by_media_type copied a video and a file that is neither an
\* image nor a video
C23_Witness ==
    /\ job = "organize_list" /\ options.by_media_type
    /\ \E i, j \in 1..Len(processed) :
          /\ IsVideo(processed[i].file) /\ processed[i].status = "copied"
          /\ ~IsImage(processed[j].file) /\ ~IsVideo(processed[j].file)
          /\ processed[j].status = "copied"

----------------------------------------------------------------------------
(* sanitize_folder_name(name) *)
\* Characters: ASCII ones are written as themselves; "U+00E9" is the letter
\* e with acute accent, "U+0663" the Arabic-Indic digit three, "U+2014" the
\* em dash.
AsciiWordChars == {"A", "z", "5", "_"}
UnicodeWordChars == {"U+00E9", "U+0663"}
FolderChars ==
    AsciiWordChars \cup UnicodeWordChars \cup {".", "-", " ", "/", "U+2014"}

\* \w of a str pattern: the Unicode letters and digits and the underscore
IsWordChar(c) == c \in AsciiWordChars \cup UnicodeWordChars

\* re.sub(r"[^\w\-_. ]", "_", name)
sanitize_folder_name(name) ==
    [i \in 1..Len(name) |->
        IF IsWordChar(name[i]) \/ name[i] \in {"-", "_", ".", " "}
        THEN name[i] ELSE "_"]

InitSanitize ==
    /\ job = "sanitize_folder_name"
    /\ pc = "call"
    /\ outcome = "running"
    /\ arg \in BoundedSeq(FolderChars, MaxChars)
    /\ ret = <<>>
    /\ InitNoRun

SanitizeCall ==
    /\ job = "sanitize_folder_name" /\ pc = "call"
    /\ ret' = Some(sanitize_folder_name(arg))
    /\ outcome' = "returned"
    /\ pc' = "done"
    /\ UNCHANGED callunchanged

SpecSanitize == InitSanitize /\ [][SanitizeCall]_vars

\* the characters A-Z, a-z, 0-9, '_', '.', '-' and space among FolderChars
AllowedFolderChars == {"A", "z", "5", "_", ".", "-", " "}

\* C24 (as stated): sanitize_folder_name replaces every character outside
\* A-Z, a-z, 0-9, '_', '.', '-' and space with '_' and leaves the characters
\* of that set unchanged: the result has the length of the input and holds
\* only characters of that set.
C24_SanitizeKeepsOnlyAllowedChars ==
    (job = "sanitize_folder_name" /\ ret # <<>>) =>
        /\ Len(ret[1]) = Len(arg)
        /\ \A i \in 1..Len(arg) :
               /\ arg[i] \in AllowedFolderChars => ret[1][i] = arg[i]
               /\ arg[i] \notin AllowedFolderChars => ret[1][i] = "_"
               /\ ret[1][i] \in AllowedFolderChars

----------------------------------------------------------------------------
(* The path _process_single_file writes an image to, from its EXIF strings *)
RECURSIVE Join(_)
Join(cs) == IF cs = <<>> THEN "" ELSE Head(cs) \o Join(Tail(cs))

\* the EXIF Model of the image: any string; its LensModel and its date
ModelChars == {".", " ", "A", "/"}
LensChoices == {<<>>, <<".", ".">>, <<"E", "F">>}
DateChoices == {<<>>, <<"2021", "05">>}
PathStructures == {<<"Model">>, <<"Year", "Model">>, <<"Model", "Lens">>}

\* lines 516-524: None without date, model and lens; Model and Lens sanitized
image_metadata(date, model, lens) ==
    IF date = <<>> /\ model = <<>> /\ lens = <<>> THEN NoMetadata
    ELSE Metadata(IF date = <<>> THEN <<>> ELSE <<date[1]>>,
                  IF date = <<>> THEN <<>> ELSE <<date[2]>>,
                  IF model = <<>> THEN <<>> ELSE <<Join(sanitize_folder_name(model))>>,
                  IF lens = <<>> THEN <<>> ELSE <<Join(sanitize_folder_name(lens))>>)

\* lines 568-583 for an image: target_dir relative to output
ImageTargetDir(metadata, opts) ==
    (IF opts.by_media_type THEN <<"Photos">> ELSE <<>>)
        \o (IF metadata.none THEN <<"No Info">>
            ELSE StructureLevels(metadata, opts.structure))

\* the directory the operating system resolves a path to
RECURSIVE Resolve(_)
Resolve(path) ==
    IF path = <<>> THEN <<>>
    ELSE LET parent == Resolve(SubSeq(path, 1, Len(path) - 1))
             last == path[Len(path)]
         IN IF last = "." THEN parent
            ELSE IF last = ".."
            THEN IF parent = <<>> THEN <<>> ELSE SubSeq(parent, 1, Len(parent) - 1)
            ELSE Append(parent, last)

OutputRoot == <<"home", "user", "out">>

InitTargetPath ==
    /\ job = "process_single_file"
    /\ pc = "call"
    /\ outcome = "running"
    /\ arg \in [Model : BoundedSeq(ModelChars, MaxChars), Lens : LensChoices,
                date : DateChoices]
    /\ ret = <<>>
    /\ InitControl
    /\ InitNoUi
    /\ InitNoFilter
    /\ options \in [by_media_type : BOOLEAN, structure : PathStructures,
                    on_exist : {"rename"}]
    /\ reported = <<>> /\ paths = <<>> /\ fileKind = <<>>
    /\ pathIdx = 1 /\ dirIdx = 1 /\ files_to_process = <<>> /\ total_files = 0
    /\ taskState = <<>> /\ yielded = {} /\ cur = 0 /\ idx = 0
    /\ all_images = <<>> /\ all_videos = <<>> /\ all_others = <<>>
    /\ exitKind = "none" /\ result = <<>>
    /\ cancelSeen = FALSE /\ everPaused = FALSE
    /\ input_list = <<>> /\ all_files = <<>>
    /\ successful_copies = 0 /\ excluded_files = <<>>
    /\ outDirs = {} /\ outFiles = <<>>
    /\ processed = <<>> /\ copiedAfterCancel = 0

\* line 576: metadata = _get_image_metadata(file)
GetImageMetadata ==
    /\ job = "process_single_file" /\ pc = "call"
    /\ ret' = Some([metadata |-> image_metadata(arg.date, arg.Model, arg.Lens),
                    target_dir |-> <<>>, created |-> {}, written |-> <<>>])
    /\ pc' = "metadata"
    /\ UNCHANGED <<callunchanged, outcome>>

\* lines 568-583
BuildTargetDir ==
    /\ job = "process_single_file" /\ pc = "metadata"
    /\ ret' = Some([ret[1] EXCEPT
                       !.target_dir = OutputRoot \o ImageTargetDir(ret[1].metadata, options)])
    /\ pc' = "target"
    /\ UNCHANGED <<callunchanged, outcome>>

\* lines 605-622: target_dir.mkdir(parents=True, exist_ok=True) and
\* shutil.copy2(file, target_dir / file.name)
MkdirAndCopy ==
    /\ job = "process_single_file" /\ pc = "target"
    /\ LET target_dir == ret[1].target_dir
       IN ret' = Some([ret[1] EXCEPT
                 !.created = {Resolve(SubSeq(target_dir, 1, k)) :
                                  k \in (Len(OutputRoot) + 1)..Len(target_dir)},
                 !.written = Append(Resolve(target_dir), "a.jpg")])
    /\ pc' = "done"
    /\ outcome' = "returned"
    /\ UNCHANGED callunchanged

SpecTargetPath ==
    InitTargetPath /\ [][GetImageMetadata \/ BuildTargetDir \/ MkdirAndCopy]_vars

\* p is output_root or lies below it
InsideOutputRoot(p) ==
    /\ Len(p) >= Len(OutputRoot)
    /\ SubSeq(p, 1, Len(OutputRoot)) = OutputRoot

\* C29 (as stated): whatever Year, Month, Model and Lens the metadata holds,
\* the file is written inside output_root and no directory outside
\* output_root is created or written.
C29_CopiesStayInsideOutputRoot ==
    (job = "process_single_file" /\ pc = "done") =>
        /\ InsideOutputRoot(ret[1].written)
        /\ Len(ret[1].written) > Len(OutputRoot)
        /\ \A d \in ret[1].created : InsideOutputRoot(d)

----------------------------------------------------------------------------
(* The media category of a suffix in analyze_directories and in             *)
(* _process_single_file                                                      *)
\* a suffix as written in the file name: its lowercase form and how it is cased
Suffixes ==
    [lower : image_extensions \cup video_extensions \cup o_image_extensions
                 \cup o_video_extensions \cup {".txt", ".pdf", ""},
     cased : {"lower", "upper", "mixed"}]

\* suffix.lower()
Lower(suffix) == suffix.lower

\* generate.py 554-568: is_image, is_video
MediaKind(suffix) ==
    IF Lower(suffix) \in o_image_extensions THEN "image"
    ELSE IF Lower(suffix) \in o_video_extensions THEN "video"
    ELSE "neither"

InitClassify ==
    /\ job = "classify"
    /\ pc = "call"
    /\ outcome = "running"
    /\ arg \in Suffixes
    /\ ret = [analysis |-> None, organize |-> None]
    /\ InitNoRun

\* analysis.py 384-391: the category _analyze_any gives the file
AnalysisClassifies ==
    /\ job = "classify" /\ ret.analysis = None
    /\ ret' = [ret EXCEPT !.analysis = Some(Category(Lower(arg)))]
    /\ pc' = IF ret.organize # None THEN "done" ELSE pc
    /\ outcome' = IF ret.organize # None THEN "returned" ELSE outcome
    /\ UNCHANGED callunchanged

\* generate.py 566-568: the category _process_single_file gives the file
OrganizeClassifies ==
    /\ job = "classify" /\ ret.organize = None
    /\ ret' = [ret EXCEPT !.organize = Some(MediaKind(arg))]
    /\ pc' = IF ret.analysis # None THEN "done" ELSE pc
    /\ outcome' = IF ret.analysis # None THEN "returned" ELSE outcome
    /\ UNCHANGED callunchanged

SpecClassify == InitClassify /\ [][AnalysisClassifies \/ OrganizeClassifies]_vars

\* C30 (as stated): analyze_directories and _process_single_file give every
\* suffix the same media category: image iff image, video iff video, other
\* iff neither.
C30_SameMediaCategory ==
    (job = "classify" /\ ret.analysis # None /\ ret.organize # None) =>
        /\ ret.analysis = Some("image") <=> ret.organize = Some("image")
        /\ ret.analysis = Some("video") <=> ret.organize = Some("video")
        /\ ret.analysis = Some("other") <=> ret.organize = Some("neither")

----------------------------------------------------------------------------
(* cr2_to_jpg (convertor.py) and its callers *)
\* os.listdir(input_dir) of the input directories
ConvertRoots == {"R1", "R2"}
ListDir(input_dir) ==
    CASE input_dir = "R1" -> <<"a.cr2", "b.CR2", "notes.txt">>
      [] input_dir = "R2" -> <<"c.cr2">>
      [] OTHER -> <<>>

\* filename.lower().endswith('.cr2')
EndsWithCr2(filename) == filename \in {"a.cr2", "b.CR2", "c.cr2"}

\* name + '.jpg' for name, _ = os.path.splitext(filename)
JpgName(filename) ==
    CASE filename = "a.cr2" -> "a.jpg"
      [] filename = "b.CR2" -> "b.jpg"
      [] filename = "c.cr2" -> "c.jpg"

\* lines 16-20
RECURSIVE Cr2Files(_)
Cr2Files(input_dirs) ==
    IF input_dirs = <<>> THEN <<>>
    ELSE LET d == Head(input_dirs)
             here == SelectSeq(ListDir(d), EndsWithCr2)
         IN [i \in 1..Len(here) |-> [dir |-> d, filename |-> here[i]]]
                \o Cr2Files(Tail(input_dirs))

\* line 12: the keyword parameters of cr2_to_jpg
ConvertParameters == {"stop_event", "progress_callback"}

\* the keyword arguments of the callers: main.py 28 (none), a caller using
\* the signature, ui/app.py 263-269
MainKwargs == {}
SignatureKwargs == {"stop_event", "progress_callback"}
DesktopAppKwargs == {"stop_event", "pause_event", "progress_callback"}

InitConvert ==
    /\ job = "convert"
    /\ pc = "c_call"
    /\ outcome = "running"
    /\ arg \in [input_dirs : BoundedSeq(ConvertRoots, MaxRoots),
                kwargs : {MainKwargs, SignatureKwargs, DesktopAppKwargs}]
    /\ ret = <<>>
    /\ InitNoRun

convertunchanged == <<job, paths, fileKind, pathIdx, dirIdx, taskState, yielded,
                      cur, all_images, all_videos, all_others, exitKind, result,
                      everPaused, input_list, options, all_files,
                      successful_copies, excluded_files, outDirs,
                      copiedAfterCancel, fvars, arg, cvars, uvars>>

\* the call: a keyword argument that is no parameter is a TypeError raised
\* before the body runs; lines 13-24 otherwise
ConvertCall ==
    /\ job = "convert" /\ pc = "c_call"
    /\ IF ~(arg.kwargs \subseteq ConvertParameters)
       THEN /\ ret' = Some("TypeError")
            /\ outcome' = "raised"
            /\ pc' = "done"
            /\ UNCHANGED <<files_to_process, total_files>>
       ELSE /\ files_to_process' = Cr2Files(arg.input_dirs)
            /\ total_files' = Len(Cr2Files(arg.input_dirs))
            /\ IF Len(Cr2Files(arg.input_dirs)) = 0
               THEN outcome' = "returned" /\ pc' = "done"
               ELSE pc' = "c_loop" /\ UNCHANGED outcome
            /\ UNCHANGED ret
    /\ UNCHANGED <<convertunchanged, idx, reported, processed, outFiles, cancelSeen>>

\* lines 26-28: the top of the loop and its Cancel check
ConvertCheckStop ==
    /\ job = "convert" /\ pc = "c_loop"
    /\ IF idx = total_files
       THEN pc' = "done" /\ outcome' = "returned" /\ UNCHANGED cancelSeen
       ELSE IF "stop_event" \in arg.kwargs /\ stop_event
       THEN pc' = "done" /\ outcome' = "returned" /\ cancelSeen' = TRUE
       ELSE pc' = "c_convert" /\ UNCHANGED <<outcome, cancelSeen>>
    /\ UNCHANGED <<convertunchanged, files_to_process, total_files, idx, reported,
                   processed, outFiles, ret>>

\* lines 30-40: rawpy reads the file (an unreadable file raises), the JPG is
\* written, progress is reported
ConvertFile ==
    /\ job = "convert" /\ pc = "c_convert"
    /\ \E readable \in BOOLEAN :
          IF readable
          THEN /\ processed' = Append(processed,
                      [file |-> files_to_process[idx + 1], index |-> idx,
                       paused |-> pause_event, cancelled |-> cancelSeen])
               /\ outFiles' = [p \in DOMAIN outFiles
                                   \cup {JpgName(files_to_process[idx + 1].filename)} |->
                               files_to_process[idx + 1].filename]
               /\ reported' = IF "progress_callback" \in arg.kwargs
                              THEN Append(reported, Fraction(idx, total_files))
                              ELSE reported
               /\ idx' = idx + 1
               /\ pc' = "c_loop"
               /\ UNCHANGED <<outcome, ret>>
          ELSE /\ ret' = Some("LibRawError")
               /\ outcome' = "raised"
               /\ pc' = "done"
               /\ UNCHANGED <<processed, outFiles, reported, idx>>
    /\ UNCHANGED <<convertunchanged, files_to_process, total_files, cancelSeen>>

NextConvert ==
    \/ ConvertCall
    \/ ConvertCheckStop
    \/ ConvertFile
    \/ SetCancel
    \/ SetPause
    \/ ClearPause

SpecConvert == InitConvert /\ [][NextConvert]_vars

\* C27 (as stated): invoked by the desktop app with stop_event, pause_event
\* and progress_callback, cr2_to_jpg accepts the call, converts no file
\* while Pause is set and none after Cancel was observed.
C27_ConverterHonoursControlContract ==
    (job = "convert" /\ arg.kwargs = DesktopAppKwargs) =>
        /\ ~(outcome = "raised" /\ ret = Some("TypeError"))
        /\ \A i \in 1..Len(processed) :
               ~processed[i].paused /\ ~processed[i].cancelled

----------------------------------------------------------------------------
(* The desktop app (ui/app.py): one stop_event and one pause_event, created *)
(* in __init__, are handed to every job                                     *)
Funcs == {"analysis", "convert", "create"}
Tabs == {"Analysis", "Convert CR2", "Organize"}

\* the tab that holds the run button of func
TabOf(func) ==
    CASE func = "analysis" -> "Analysis"
      [] func = "convert" -> "Convert CR2"
      [] OTHER -> "Organize"

\* lines 134-135 and tabs.py 24-50: the events are unset, every run button is
\* enabled, the pause and stop buttons are not shown
InitUi ==
    /\ job = "desktop_app"
    /\ pc = "mainloop"
    /\ outcome = "running"
    /\ InitControl
    /\ InitNoBatch
    /\ arg = <<>>
    /\ ret = <<>>
    /\ tab = "Organize"
    /\ threads = [f \in Funcs |-> "idle"]
    /\ buttons = [run |-> [f \in Funcs |-> "normal"],
                  shown |-> [t \in Tabs |-> FALSE],
                  stop |-> [t \in Tabs |-> "normal"],
                  pause |-> [t \in Tabs |-> "normal"]]
    /\ signalled = {}

uiunchanged == <<job, pc, outcome, reported, avars, input_list, options, all_files,
                 successful_copies, excluded_files, outDirs, outFiles, processed,
                 copiedAfterCancel, fvars, arg, ret>>

\* the user selects another tab of the tabview
SwitchTab ==
    /\ job = "desktop_app"
    /\ \E t \in Tabs \ {tab} : tab' = t
    /\ UNCHANGED <<uiunchanged, cvars, threads, buttons, signalled>>

\* run_process (lines 204-240), the run button of the shown tab: the button
\* is disabled, both events are cleared, the pause and stop buttons of the
\* tab are shown, the worker thread is started
RunProcess ==
    /\ job = "desktop_app"
    /\ \E func \in Funcs :
          /\ tab = TabOf(func)
          /\ buttons.run[func] = "normal"
          /\ buttons' = [buttons EXCEPT !.run[func] = "disabled",
                                        !.shown[tab] = TRUE,
                                        !.stop[tab] = "normal",
                                        !.pause[tab] = "normal"]
          /\ stop_event' = FALSE
          /\ pause_event' = FALSE
          /\ threads' = [threads EXCEPT ![func] = "running"]
          /\ signalled' = signalled \ {func}
    /\ UNCHANGED <<uiunchanged, tab>>

\* stop_process (lines 146-153), the stop button of the shown tab
StopProcess ==
    /\ job = "desktop_app"
    /\ buttons.shown[tab] /\ buttons.stop[tab] = "normal"
    /\ stop_event' = TRUE
    /\ buttons' = [buttons EXCEPT !.stop[tab] = "disabled", !.pause[tab] = "disabled"]
    /\ signalled' = signalled \cup {f \in Funcs : threads[f] = "running"}
    /\ UNCHANGED <<uiunchanged, pause_event, tab, threads>>

\* toggle_pause (lines 155-166), the pause button of the shown tab
TogglePause ==
    /\ job = "desktop_app"
    /\ buttons.shown[tab] /\ buttons.pause[tab] = "normal"
    /\ pause_event' = ~pause_event
    /\ UNCHANGED <<uiunchanged, stop_event, tab, threads, buttons, signalled>>

\* execute (lines 242-300) in the worker thread: the job polls the events
\* and ends, on Cancel or by itself (a job waiting for Pause to clear does
\* not end); the finish callback is queued with self.after
WorkerEnds ==
    /\ job = "desktop_app"
    /\ \E func \in Funcs :
          /\ threads[func] = "running"
          /\ stop_event \/ ~pause_event
          /\ threads' = [threads EXCEPT ![func] = "finished"]
          /\ signalled' = signalled \ {func}
    /\ UNCHANGED <<uiunchanged, cvars, tab, buttons>>

\* finish_success / finish_error / finish_stopped (lines 302-328): the run
\* button is enabled, the pause and stop buttons of the shown tab are hidden
FinishCallback ==
    /\ job = "desktop_app"
    /\ \E func \in Funcs :
          /\ threads[func] = "finished"
          /\ threads' = [threads EXCEPT ![func] = "idle"]
          /\ buttons' = [buttons EXCEPT !.run[func] = "normal", !.shown[tab] = FALSE]
    /\ UNCHANGED <<uiunchanged, cvars, tab, signalled>>

NextUi ==
    \/ SwitchTab
    \/ RunProcess
    \/ StopProcess
    \/ TogglePause
    \/ WorkerEnds
    \/ FinishCallback

SpecUi == InitUi /\ [][NextUi]_vars

\* C21 (as stated): a Cancel signal set for a running job stays set until
\* that job has terminated; no user action clears the signal a still
\* running job is polling.
C21_CancelStaysSetWhileJobRuns ==
    job = "desktop_app" =>
        \A func \in signalled : threads[func] = "running" => stop_event

====
